---- MODULE Spec2Model ----
(***************************************************************************)
(* Model of the JJ Enterprises web front-end: the checkout wizard          *)
(* (app/checkout/page.tsx), the security utilities (lib/security.ts: rate  *)
(* limiting, login attempts, CSRF token, secureStorage, password           *)
(* validation), the configurator page (app/configurator/page.tsx), the 3D  *)
(* box component (components/enhanced-3d-configurator.tsx) and the         *)
(* currency provider and selector (lib/currency-context.tsx).              *)
(*                                                                         *)
(* Strings whose contents are inspected by the code (regular expressions,  *)
(* parseFloat) are sequences of one-character strings.  Strings that are   *)
(* only compared or stored are TLA+ strings.                               *)
(***************************************************************************)
EXTENDS Integers, Sequences, FiniteSets, TLC

VARIABLES
    \* ---- CheckoutPage component state (checkout/page.tsx:29-61)
    cartItems, orderData, isProcessing, orderComplete, error, activeStep,
    mounted,        \* the useEffect of lines 69-85 has run
    pending,        \* closure of a handleSubmitOrder awaiting its 3 s timer
    \* ---- browser
    localStorage,   \* function from the keys present to their JSON text
    now,            \* Date.now(), in milliseconds
    hasWindow,      \* typeof window !== "undefined"
    \* ---- rate limiting (lib/security.ts)
    rateLimitStore, \* the Map, a function from the identifiers present
    maxRequests, windowMs,  \* the arguments the caller passes on every call
    rateResult,     \* the value the last checkRateLimit returned
    rateWindow,     \* per identifier: when its window opened, calls allowed in it
    \* ---- login attempts (lib/security.ts)
    loginResult,    \* the value the last checkLoginAttempts returned
    loginHistory,   \* per identifier: the failed logins recorded since the last clear
    \* ---- CSRF token and secureStorage (lib/security.ts)
    sessionStorage, \* function from the keys present to their text
    csrfResult,     \* the argument and value of the last validateCSRFToken
    csrfStored,     \* the token of the most recent setCSRFToken that stored one
    secureResult,   \* the key and value of the last secureStorage.getItem
    secureWritten,  \* per key: the value last written and not removed since
    \* ---- password validation (lib/security.ts)
    password,       \* the argument of validatePassword
    passwordResult, \* the value validatePassword returned
    \* ---- ConfiguratorPage component state (configurator/page.tsx:168-205)
    config, viewMode, isAnimating, configChanged, activeTab, isLoading,
    timers,         \* the updateConfig timeouts not yet fired
    calculatedVolume, estimatedPrice, totalPrice,   \* useMemo caches
    \* ---- Enhanced3DBox (enhanced-3d-configurator.tsx:68-181)
    style, dimensions, foldingState, animationProgress,     \* props
    boxGeometry,    \* useMemo cache
    overlay,        \* the assembly instruction rendered, if any
    foldingAnimation,   \* the steps and children of the last animateFolding
    \* ---- CurrencyProvider and CurrencySelector (lib/currency-context.tsx)
    currency, rates,
    currencyIsLoading,  \* isLoading of the provider
    providerMounted,    \* the useEffect of lines 39-48 has run
    open,               \* the popover of the selector
    convertResult,      \* the argument and value of the last convertPrice
    lastSetCurrency,    \* the argument of the last setCurrency of the context
    \* ---- rate limiting, continued
    rateDenied      \* per identifier: the resetTime its last call, if denied, reported

securityVars == <<hasWindow, rateLimitStore, maxRequests, windowMs, rateResult,
                  rateWindow, loginResult, loginHistory>>

checkoutVars == <<cartItems, orderData, isProcessing, orderComplete, error,
                  activeStep, mounted, pending>>

storageVars == <<sessionStorage, csrfResult, csrfStored, secureResult, secureWritten>>

passwordVars == <<password, passwordResult>>

configuratorVars == <<config, viewMode, isAnimating, configChanged, activeTab,
                      isLoading, timers, calculatedVolume, estimatedPrice,
                      totalPrice>>

boxVars == <<style, dimensions, foldingState, animationProgress, boxGeometry,
             overlay, foldingAnimation>>

currencyVars == <<currency, rates, currencyIsLoading, providerMounted, open,
                  convertResult, lastSetCurrency>>

componentVars == <<storageVars, passwordVars, configuratorVars, boxVars,
                   currencyVars>>

otherVars == <<componentVars, rateDenied>>

vars == <<checkoutVars, localStorage, now, securityVars, otherVars>>

-----------------------------------------------------------------------------
(* Characters and strings *)

Digits == {"0", "1", "2", "3", "4", "5", "6", "7", "8", "9"}
NonZeroDigits == Digits \ {"0"}
Whitespace == {" ", "\t", "\n"}

DigitValue(c) ==
    CASE c = "0" -> 0 [] c = "1" -> 1 [] c = "2" -> 2 [] c = "3" -> 3
      [] c = "4" -> 4 [] c = "5" -> 5 [] c = "6" -> 6 [] c = "7" -> 7
      [] c = "8" -> 8 [] c = "9" -> 9

\* the error state `null`
NoError == "<null>"

-----------------------------------------------------------------------------
(* localStorage and JSON *)

JSONstringify(v) == [json |-> v]
JSONparse(text) == text.json

HasItem(key) == key \in DOMAIN localStorage

SetItem(store, key, text) ==
    [k \in DOMAIN store \cup {key} |-> IF k = key THEN text ELSE store[k]]

RemoveItem(store, key) == [k \in DOMAIN store \ {key} |-> store[k]]

\* JSON.parse(localStorage.getItem(key) || fallback)
GetParsedOr(key, fallback) ==
    IF HasItem(key) THEN JSONparse(localStorage[key]) ELSE fallback

-----------------------------------------------------------------------------
(* Checkout: form validation *)

emailRegexTest(s) ==
    \E i \in 1..Len(s) :
        /\ s[i] = "@"
        /\ i > 1
        /\ \A j \in 1..Len(s) : j # i => s[j] \notin Whitespace \cup {"@"}
        /\ \E k \in (i + 2)..(Len(s) - 1) : s[k] = "."

IsDigit(c) == c \in Digits

\* phone.replace(/\D/g, "")
StripNonDigits(s) == SelectSeq(s, IsDigit)

phoneRegexTest(s) ==
    \E p \in {0, 1} :
        /\ p = 1 => (Len(s) >= 1 /\ s[1] = "+")
        /\ Len(s) - p >= 2
        /\ Len(s) - p <= 15
        /\ s[p + 1] \in NonZeroDigits
        /\ \A j \in (p + 2)..Len(s) : s[j] \in Digits

pincodeRegexTest(s) ==
    /\ Len(s) = 6
    /\ s[1] \in NonZeroDigits
    /\ \A j \in 2..6 : s[j] \in Digits

requiredBillingFields ==
    << [key |-> "firstName", name |-> "Billing First Name"],
       [key |-> "lastName",  name |-> "Billing Last Name"],
       [key |-> "address",   name |-> "Billing Address"],
       [key |-> "city",      name |-> "Billing City"],
       [key |-> "state",     name |-> "Billing State"],
       [key |-> "pincode",   name |-> "Billing Pincode"],
       [key |-> "phone",     name |-> "Billing Phone"],
       [key |-> "email",     name |-> "Billing Email"] >>

requiredShippingFields ==
    << [key |-> "firstName", name |-> "Shipping First Name"],
       [key |-> "lastName",  name |-> "Shipping Last Name"],
       [key |-> "address",   name |-> "Shipping Address"],
       [key |-> "city",      name |-> "Shipping City"],
       [key |-> "state",     name |-> "Shipping State"],
       [key |-> "pincode",   name |-> "Shipping Pincode"],
       [key |-> "phone",     name |-> "Shipping Phone"] >>

RequiredMessage(name) ==
    CASE name = "Billing First Name"  -> "Billing First Name is required."
      [] name = "Billing Last Name"   -> "Billing Last Name is required."
      [] name = "Billing Address"     -> "Billing Address is required."
      [] name = "Billing City"        -> "Billing City is required."
      [] name = "Billing State"       -> "Billing State is required."
      [] name = "Billing Pincode"     -> "Billing Pincode is required."
      [] name = "Billing Phone"       -> "Billing Phone is required."
      [] name = "Billing Email"       -> "Billing Email is required."
      [] name = "Shipping First Name" -> "Shipping First Name is required."
      [] name = "Shipping Last Name"  -> "Shipping Last Name is required."
      [] name = "Shipping Address"    -> "Shipping Address is required."
      [] name = "Shipping City"       -> "Shipping City is required."
      [] name = "Shipping State"      -> "Shipping State is required."
      [] name = "Shipping Pincode"    -> "Shipping Pincode is required."
      [] name = "Shipping Phone"      -> "Shipping Phone is required."

\* indices of the fields of `fields` that are empty in `address`
MissingFields(fields, address) ==
    {i \in 1..Len(fields) : address[fields[i].key] = <<>>}

Min(S) == CHOOSE x \in S : \A y \in S : x <= y

\* validateForm with the pincode format checked before the email format
validateForm_PincodeFirst(od) ==
    LET billingAddress == od.billingAddress
        missingB == MissingFields(requiredBillingFields, billingAddress)
        Fail(msg) == [ok |-> FALSE, error |-> msg]
    IN  IF missingB # {}
          THEN Fail(RequiredMessage(requiredBillingFields[Min(missingB)].name))
        ELSE IF ~pincodeRegexTest(billingAddress.pincode)
          THEN Fail("Please enter a valid 6-digit pincode for billing.")
        ELSE IF ~emailRegexTest(billingAddress.email)
          THEN Fail("Please enter a valid email address for billing.")
        ELSE IF ~phoneRegexTest(StripNonDigits(billingAddress.phone))
          THEN Fail("Please enter a valid phone number for billing (e.g., +919876543210 or 9876543210).")
        ELSE IF ~od.agreedToTerms
          THEN Fail("You must agree to the terms and conditions to place an order.")
        ELSE [ok |-> TRUE, error |-> NoError]

\* validateForm: the value returned and the value `error` is left with
validateForm(od) ==
    LET billingAddress == od.billingAddress
        shippingAddress == od.shippingAddress
        missingB == MissingFields(requiredBillingFields, billingAddress)
        missingS == MissingFields(requiredShippingFields, shippingAddress)
        Fail(msg) == [ok |-> FALSE, error |-> msg]
    IN  IF missingB # {}
          THEN Fail(RequiredMessage(requiredBillingFields[Min(missingB)].name))
        ELSE IF ~od.sameAsBilling /\ missingS # {}
          THEN Fail(RequiredMessage(requiredShippingFields[Min(missingS)].name))
        ELSE IF ~emailRegexTest(billingAddress.email)
          THEN Fail("Please enter a valid email address for billing.")
        ELSE IF ~phoneRegexTest(StripNonDigits(billingAddress.phone))
          THEN Fail("Please enter a valid phone number for billing (e.g., +919876543210 or 9876543210).")
        ELSE IF ~od.sameAsBilling /\ ~phoneRegexTest(StripNonDigits(shippingAddress.phone))
          THEN Fail("Please enter a valid phone number for shipping.")
        ELSE IF ~pincodeRegexTest(billingAddress.pincode)
          THEN Fail("Please enter a valid 6-digit pincode for billing.")
        ELSE IF ~od.sameAsBilling /\ ~pincodeRegexTest(shippingAddress.pincode)
          THEN Fail("Please enter a valid 6-digit pincode for shipping.")
        ELSE IF ~od.agreedToTerms
          THEN Fail("You must agree to the terms and conditions to place an order.")
        ELSE [ok |-> TRUE, error |-> NoError]

-----------------------------------------------------------------------------
(* Checkout: totals *)

\* Number.parseFloat of a string of decimal digits
RECURSIVE parseFloat(_)
parseFloat(s) ==
    IF s = <<>> THEN 0
    ELSE 10 * parseFloat(SubSeq(s, 1, Len(s) - 1)) + DigitValue(s[Len(s)])

\* typeof item.price === "string" ? Number.parseFloat(item.price) : item.price
ItemPrice(item) ==
    IF item.priceIsString THEN parseFloat(item.price) ELSE item.price

\* cartItems.reduce((total, item) => total + price * item.quantity, 0)
RECURSIVE calculateTotal(_)
calculateTotal(items) ==
    IF items = <<>> THEN 0
    ELSE calculateTotal(SubSeq(items, 1, Len(items) - 1))
             + ItemPrice(items[Len(items)]) * items[Len(items)].quantity

\* const total = calculateTotal()
total == calculateTotal(cartItems)

\* const gst = total * 0.18, in hundredths of a rupee
gst == total * 18

deliveryCharges_AtThreshold == IF total >= 5000 THEN 0 ELSE 200

\* const deliveryCharges = total > 5000 ? 0 : 200
deliveryCharges == IF total > 5000 THEN 0 ELSE 200

\* const finalTotal = total + gst + deliveryCharges, in hundredths of a rupee
finalTotal == total * 100 + gst + deliveryCharges * 100

-----------------------------------------------------------------------------
(* Checkout: inputs *)

\* values typed into the form fields: empty, malformed, well-formed
TextValues == {<<>>, <<"x">>}
EmailValues == {<<>>, <<"a", "@", "b">>, <<"a", "@", "b", ".", "c">>}
PhoneValues == {<<>>, <<"0", "9", "1">>, <<"+", "9", "1">>}
PincodeValues == {<<>>, <<"4", "0", "0">>, <<"4", "0", "0", "0", "0", "1">>}

FieldValues(field) ==
    CASE field = "email" -> EmailValues
      [] field = "phone" -> PhoneValues
      [] field = "pincode" -> PincodeValues
      [] OTHER -> TextValues

\* the well-formed value of each field
GoodValue(field) ==
    CASE field = "email" -> <<"a", "@", "b", ".", "c">>
      [] field = "phone" -> <<"+", "9", "1">>
      [] field = "pincode" -> <<"4", "0", "0", "0", "0", "1">>
      [] OTHER -> <<"x">>

\* values typed in the full wizard: a required field is cleared or filled in
WizardValues(field) == {<<>>, GoodValue(field)}

BillingFields == {"firstName", "lastName", "company", "address", "city",
                  "state", "pincode", "phone", "email"}

RequiredFields == BillingFields \ {"company"}

PaymentMethods == {"cod", "online", "bank"}

InstructionValues == {"", "fragile"}

\* items other pages leave under the keys "cart" and "enhancementData"
ItemA == [id |-> 1, type |-> "product", priceIsString |-> TRUE,
          price |-> <<"2", "5", "0", "0">>, quantity |-> 2]
ItemB == [id |-> 2, type |-> "custom-design", priceIsString |-> FALSE,
          price |-> 100, quantity |-> 1]

InitialOrderData ==
    [ billingAddress |->
          [firstName |-> <<>>, lastName |-> <<>>, company |-> <<>>,
           address |-> <<>>, city |-> <<>>, state |-> <<>>,
           pincode |-> <<>>, phone |-> <<>>, email |-> <<>>],
      shippingAddress |->
          [firstName |-> <<>>, lastName |-> <<>>, company |-> <<>>,
           address |-> <<>>, city |-> <<>>, state |-> <<>>,
           pincode |-> <<>>, phone |-> <<>>],
      sameAsBilling |-> TRUE,
      paymentMethod |-> "cod",
      specialInstructions |-> "",
      agreedToTerms |-> FALSE ]

NoPending == [active |-> FALSE]

\* the "orders" list in local storage
StoredOrders == GetParsedOr("orders", <<>>)

-----------------------------------------------------------------------------
(* Checkout: construction *)

\* useState initial values of a freshly constructed page
Constructed ==
    /\ cartItems = <<>>
    /\ orderData = InitialOrderData
    /\ isProcessing = FALSE
    /\ orderComplete = FALSE
    /\ error = NoError
    /\ activeStep = 1
    /\ mounted = FALSE
    /\ pending = NoPending

EmptyObject == [k \in {} |-> 0]

\* an order form that has passed validateForm
FilledOrderData(method) ==
    [InitialOrderData EXCEPT
        !.billingAddress = [f \in DOMAIN InitialOrderData.billingAddress |->
                               IF f = "company" THEN <<>> ELSE GoodValue(f)],
        !.paymentMethod = method,
        !.agreedToTerms = TRUE]

\* the order record built after the await, from the values the handler
\* closed over
OrderRecord(items, od, time) ==
    [id |-> time, items |-> items, orderData |-> od,
     total |-> calculateTotal(items), status |-> "confirmed",
     createdAt |-> time]

\* local storage as earlier visits of the shop leave it: a cart, items of
\* the enhancement flow, orders placed before
Storage(cart, enh, orders) ==
    LET s0 == EmptyObject
        s1 == IF cart = <<>> THEN s0
              ELSE SetItem(s0, "cart", JSONstringify(cart))
        s2 == IF enh = <<>> THEN s1
              ELSE SetItem(s1, "enhancementData",
                           JSONstringify([orderItems |-> enh]))
    IN  IF orders = <<>> THEN s2
        ELSE SetItem(s2, "orders", JSONstringify(orders))

OrderP == OrderRecord(<<ItemB>>, FilledOrderData("bank"), -2)
OrderQ == OrderRecord(<<ItemA>>, FilledOrderData("cod"), -1)

InitialStorages ==
    { Storage(<<>>, <<>>, <<>>),
      Storage(<<ItemA>>, <<>>, <<>>),
      Storage(<<>>, <<ItemB>>, <<OrderP>>),
      Storage(<<ItemA>>, <<ItemB>>, <<OrderP, OrderQ>>) }

NoResult == [none |-> TRUE]

\* a value that may be null
Null == [null |-> TRUE]
NotNull(v) == [null |-> FALSE, value |-> v]

-----------------------------------------------------------------------------
(* Configurator page (app/configurator/page.tsx): configuration and        *)
(* derived values.  The volume text "7.50" is the number of hundredths,    *)
(* 750.                                                                    *)

MaxQuantity == 110
MaxTimers == 2

InitialConfig ==
    [ dimensions |-> [width |-> 25, height |-> 20, depth |-> 15, thickness |-> 3],
      style |-> "shipping",
      material |-> "corrugated",
      color |-> "#8B4513",
      finish |-> "matte",
      quantity |-> 100 ]

\* the products width * height * depth ending in 5, among the slider values
\* below, whose quotient by 1000 is a double just under the decimal tie, so
\* that toFixed(2) rounds it down: 175 / 1000 gives "0.17"
TiesRoundedDown == {175}

\* (k / 1000).toFixed(2), in hundredths
toFixed2(k) ==
    IF k \in TiesRoundedDown THEN k \div 10 ELSE (k + 5) \div 10

\* ((width * height * depth) / 1000).toFixed(2)
VolumeOf(dims) ==
    toFixed2(dims.width * dims.height * dims.depth)

\* config.material === "corrugated" ? 1.2 : 1, in tenths
matScale(material) == IF material = "corrugated" THEN 12 ELSE 10

\* Math.round((25 + Number(calculatedVolume) * 0.5) * matScale)
PriceOf(volume, material) ==
    ((5000 + volume) * matScale(material) + 1000) \div 2000

\* useMemo: the cached value is kept while the dependencies are unchanged
Memo(cache, deps, value) ==
    IF cache.deps = deps THEN cache ELSE [deps |-> deps, value |-> value]

calculatedVolumeDeps(c) == <<c.dimensions>>

estimatedPriceDeps_VolumeOnly(c, volume) == <<volume>>

\* [config, calculatedVolume]
estimatedPriceDeps(c, volume) == <<c, volume>>

totalPriceDeps(price, c) == <<price, c.quantity>>

\* the first render of the page
ConfiguratorMounted ==
    /\ config = InitialConfig
    /\ viewMode = "assembled"
    /\ isAnimating = FALSE
    /\ configChanged = FALSE
    /\ activeTab = "dimensions"
    /\ isLoading = FALSE
    /\ timers = 0
    /\ calculatedVolume = [deps |-> calculatedVolumeDeps(InitialConfig),
                           value |-> VolumeOf(InitialConfig.dimensions)]
    /\ estimatedPrice =
         [deps |-> estimatedPriceDeps(InitialConfig, VolumeOf(InitialConfig.dimensions)),
          value |-> PriceOf(VolumeOf(InitialConfig.dimensions), InitialConfig.material)]
    /\ totalPrice =
         [deps |-> totalPriceDeps(PriceOf(VolumeOf(InitialConfig.dimensions),
                                          InitialConfig.material), InitialConfig),
          value |-> PriceOf(VolumeOf(InitialConfig.dimensions), InitialConfig.material)
                      * InitialConfig.quantity]

-----------------------------------------------------------------------------
(* Enhanced3DBox (components/enhanced-3d-configurator.tsx): box styles,    *)
(* geometry generators and assembly instructions                           *)

BOX_STYLES ==
    [ rsc |-> [foldingSequence |-> <<"bottom", "sides", "top">>],
      autoBottom |-> [foldingSequence |-> <<"bottom-lock", "sides", "top">>],
      display |-> [foldingSequence |-> <<"base", "display-panel", "sides">>],
      drawer |-> [foldingSequence |-> <<"outer-sleeve", "inner-drawer">>],
      folding |-> [foldingSequence |-> <<"base-fold", "side-tabs", "lock-tabs">>],
      gableTop |-> [foldingSequence |-> <<"base", "sides", "gable-fold">>],
      pillow |-> [foldingSequence |-> <<"curve-sides", "end-tucks">>],
      tuckEnd |-> [foldingSequence |-> <<"bottom", "sides", "tuck-ends">>],
      hingedLid |-> [foldingSequence |-> <<"base", "hinge", "lid">>] ]

\* the default props; lengths are in twentieths of a unit, so that the
\* halves, quarters and tenths the generators take are whole numbers
DefaultDimensions == [length |-> 600, width |-> 400, height |-> 300, thickness |-> 6]

ProgressSteps == 12

Part(name, size, position) == [name |-> name, size |-> size, position |-> position]

createRSCGeometry(length, width, height, thickness) ==
    LET flapLength == (width * 3) \div 5
        halfL == length \div 2
        halfW == width \div 2
        halfH == height \div 2
        halfFlap == flapLength \div 2
    IN  << Part("bottom", <<length, thickness, width>>, <<0, 0 - halfH, 0>>),
           Part("top", <<length, thickness, width>>, <<0, halfH, 0>>),
           Part("left-side", <<thickness, height, width>>, <<0 - halfL, 0, 0>>),
           Part("right-side", <<thickness, height, width>>, <<halfL, 0, 0>>),
           Part("front", <<length, height, thickness>>, <<0, 0, 0 - halfW>>),
           Part("back", <<length, height, thickness>>, <<0, 0, halfW>>),
           Part("bottom-front-flap", <<length, thickness, flapLength>>,
                <<0, 0 - halfH - thickness, 0 - halfW - halfFlap>>),
           Part("bottom-back-flap", <<length, thickness, flapLength>>,
                <<0, 0 - halfH - thickness, halfW + halfFlap>>),
           Part("bottom-left-flap", <<flapLength, thickness, width>>,
                <<0 - halfL - halfFlap, 0 - halfH - thickness, 0>>),
           Part("bottom-right-flap", <<flapLength, thickness, width>>,
                <<halfL + halfFlap, 0 - halfH - thickness, 0>>),
           Part("top-front-flap", <<length, thickness, flapLength>>,
                <<0, halfH + thickness, 0 - halfW - halfFlap>>),
           Part("top-back-flap", <<length, thickness, flapLength>>,
                <<0, halfH + thickness, halfW + halfFlap>>),
           Part("top-left-flap", <<flapLength, thickness, width>>,
                <<0 - halfL - halfFlap, halfH + thickness, 0>>),
           Part("top-right-flap", <<flapLength, thickness, width>>,
                <<halfL + halfFlap, halfH + thickness, 0>>) >>

createAutoBottomGeometry(length, width, height, thickness) ==
    LET tabWidth == (width * 3) \div 10
        tabHeight == height \div 5
    IN  createRSCGeometry(length, width, height, thickness) \o
        << Part("auto-lock-tab-1", <<tabWidth, tabHeight, thickness>>,
                <<0 - (length \div 4), 0 - (height \div 2) + (tabHeight \div 2),
                  0 - (width \div 2)>>),
           Part("auto-lock-tab-2", <<tabWidth, tabHeight, thickness>>,
                <<length \div 4, 0 - (height \div 2) + (tabHeight \div 2),
                  0 - (width \div 2)>>) >>

createDisplayBoxGeometry(length, width, height, thickness) ==
    LET baseHeight == (height * 3) \div 5
        displayHeight == (height * 2) \div 5
    IN  << Part("bottom", <<length, thickness, width>>, <<0, 0 - (baseHeight \div 2), 0>>),
           Part("left-side", <<thickness, baseHeight, width>>, <<0 - (length \div 2), 0, 0>>),
           Part("right-side", <<thickness, baseHeight, width>>, <<length \div 2, 0, 0>>),
           Part("front", <<length, baseHeight, thickness>>, <<0, 0, 0 - (width \div 2)>>),
           [ name |-> "display-panel",
             size |-> <<length, displayHeight, thickness>>,
             position |-> <<0, (baseHeight \div 2) + (displayHeight \div 4), width \div 2>>,
             rotation |-> <<"-PI/6", 0, 0>> ] >>

createDrawerBoxGeometry(length, width, height, thickness) ==
    createRSCGeometry(length, width, height, thickness)

createFoldingBoxGeometry(length, width, height, thickness) ==
    createRSCGeometry(length, width, height, thickness)

createGableTopGeometry(length, width, height, thickness) ==
    createRSCGeometry(length, width, height, thickness)

createPillowBoxGeometry_Display(length, width, height, thickness) ==
    createDisplayBoxGeometry(length, width, height, thickness)

createPillowBoxGeometry(length, width, height, thickness) ==
    createRSCGeometry(length, width, height, thickness)

createTuckEndGeometry(length, width, height, thickness) ==
    createRSCGeometry(length, width, height, thickness)

createHingedLidGeometry(length, width, height, thickness) ==
    createRSCGeometry(length, width, height, thickness)

\* the switch of the boxGeometry memo
GeometryOf(s, d) ==
    CASE s = "rsc" -> createRSCGeometry(d.length, d.width, d.height, d.thickness)
      [] s = "autoBottom" -> createAutoBottomGeometry(d.length, d.width, d.height, d.thickness)
      [] s = "display" -> createDisplayBoxGeometry(d.length, d.width, d.height, d.thickness)
      [] s = "drawer" -> createDrawerBoxGeometry(d.length, d.width, d.height, d.thickness)
      [] s = "folding" -> createFoldingBoxGeometry(d.length, d.width, d.height, d.thickness)
      [] s = "gableTop" -> createGableTopGeometry(d.length, d.width, d.height, d.thickness)
      [] s = "pillow" -> createPillowBoxGeometry(d.length, d.width, d.height, d.thickness)
      [] s = "tuckEnd" -> createTuckEndGeometry(d.length, d.width, d.height, d.thickness)
      [] s = "hingedLid" -> createHingedLidGeometry(d.length, d.width, d.height, d.thickness)
      [] OTHER -> createRSCGeometry(d.length, d.width, d.height, d.thickness)

boxGeometryDeps(s, d) == <<s, d>>

StepOf_Rounded(progress, n) == (2 * progress * n + ProgressSteps) \div (2 * ProgressSteps)

\* Math.floor(animationProgress * n), the progress being progress /
\* ProgressSteps
StepOf(progress, n) == (progress * n) \div ProgressSteps

\* currentInstruction.replace('-', ' ').toUpperCase()
ReplaceUpper(text) ==
    CASE text = "bottom" -> "BOTTOM"
      [] text = "sides" -> "SIDES"
      [] text = "top" -> "TOP"
      [] text = "bottom-lock" -> "BOTTOM LOCK"
      [] text = "base" -> "BASE"
      [] text = "display-panel" -> "DISPLAY PANEL"
      [] text = "outer-sleeve" -> "OUTER SLEEVE"
      [] text = "inner-drawer" -> "INNER DRAWER"
      [] text = "base-fold" -> "BASE FOLD"
      [] text = "side-tabs" -> "SIDE TABS"
      [] text = "lock-tabs" -> "LOCK TABS"
      [] text = "gable-fold" -> "GABLE FOLD"
      [] text = "curve-sides" -> "CURVE SIDES"
      [] text = "end-tucks" -> "END TUCKS"
      [] text = "tuck-ends" -> "TUCK ENDS"
      [] text = "hinge" -> "HINGE"
      [] text = "lid" -> "LID"
      [] text = "Complete" -> "COMPLETE"

\* AssemblyInstructions({ style, step })
AssemblyInstructions(s, step) ==
    LET instructions == IF s \in DOMAIN BOX_STYLES
                        THEN BOX_STYLES[s].foldingSequence ELSE <<>>
        currentInstruction == IF step + 1 \in DOMAIN instructions
                              THEN instructions[step + 1] ELSE "Complete"
    IN  [ step |-> step + 1,
          currentInstruction |-> currentInstruction,
          text |-> ReplaceUpper(currentInstruction) ]

\* reading BOX_STYLES[style].foldingSequence of a style that is not in the
\* table throws
Throws == [throws |-> "TypeError"]

\* the overlay Enhanced3DBox renders for its props
OverlayOf(s, state, progress) ==
    IF state # "folding" THEN Null
    ELSE IF s \notin DOMAIN BOX_STYLES THEN Throws
    ELSE NotNull(AssemblyInstructions(s,
                    StepOf(progress, Len(BOX_STYLES[s].foldingSequence))))

\* the children of the group: a mesh per part, rendered with a key, a
\* geometry and a material only, then the fold lines and, while folding,
\* the instruction overlay; none is given a name, so each has the empty
\* userData of a new Object3D
GroupChildren(geometry, state) ==
    [i \in 1..Len(geometry) |-> [type |-> "Mesh", userData |-> EmptyObject]]
        \o << [type |-> "Group", userData |-> EmptyObject] >>
        \o (IF state = "folding"
            THEN << [type |-> "Group", userData |-> EmptyObject] >>
            ELSE <<>>)

\* text.includes(search), over the part names and the step names of the file
Includes(text, search) ==
    \/ text = search
    \/ /\ search = "bottom"
       /\ text \in {"bottom-front-flap", "bottom-back-flap", "bottom-left-flap",
                    "bottom-right-flap"}
    \/ /\ search = "top"
       /\ text \in {"top-front-flap", "top-back-flap", "top-left-flap",
                    "top-right-flap"}

\* stepProgress > 0 && stepProgress <= 1, with the progress in parts of
\* ProgressSteps; index counts from 0
StepSelected(progress, n, index) ==
    /\ progress * n - index * ProgressSteps > 0
    /\ progress * n - index * ProgressSteps <= ProgressSteps

\* child.userData.name && child.userData.name.includes(step)
PartOfStep(child, step) ==
    /\ "name" \in DOMAIN child.userData
    /\ child.userData.name # ""
    /\ Includes(child.userData.name, step)

\* animateFolding(group, style, progress): the steps it selects and the
\* children whose rotation it puts on the timeline
animateFolding(children, s, progress) ==
    LET foldingSequence == BOX_STYLES[s].foldingSequence
        steps == {index \in 0..(Len(foldingSequence) - 1) :
                    StepSelected(progress, Len(foldingSequence), index)}
    IN  [ steps |-> steps,
          rotated |-> {c \in DOMAIN children :
                         \E index \in steps :
                             PartOfStep(children[c], foldingSequence[index + 1])} ]

\* the first render of the component with its default props; the effect
\* finds foldingState 'assembled' and does not animate
BoxMounted ==
    /\ style = "rsc"
    /\ dimensions = DefaultDimensions
    /\ foldingState = "assembled"
    /\ animationProgress = 0
    /\ boxGeometry = [deps |-> boxGeometryDeps("rsc", DefaultDimensions),
                      value |-> GeometryOf("rsc", DefaultDimensions)]
    /\ overlay = Null
    /\ foldingAnimation = Null

-----------------------------------------------------------------------------
(* CurrencyProvider (lib/currency-context.tsx): rates are in thousandths   *)

DEFAULT_RATES ==
    [ INR |-> [code |-> "INR", rate |-> 1000],
      USD |-> [code |-> "USD", rate |-> 12],
      AED |-> [code |-> "AED", rate |-> 44] ]

\* the provider and the selector as constructed, before the mount effect
CurrencyConstructed ==
    /\ currency = "INR"
    /\ rates = DEFAULT_RATES
    /\ currencyIsLoading = TRUE
    /\ providerMounted = FALSE
    /\ open = FALSE
    /\ convertResult = NoResult

CurrencyIdle ==
    /\ CurrencyConstructed
    /\ lastSetCurrency = Null

-----------------------------------------------------------------------------
(* The components and utilities at rest *)

\* nothing has been stored in the session, nothing asked of secureStorage
StorageIdle ==
    /\ sessionStorage = EmptyObject
    /\ csrfResult = NoResult
    /\ csrfStored = Null
    /\ secureResult = NoResult
    /\ secureWritten = EmptyObject

\* validatePassword has not been called
PasswordIdle ==
    /\ password = <<>>
    /\ passwordResult = NoResult

\* the components and utilities this specification does not exercise
OtherIdle ==
    /\ StorageIdle
    /\ PasswordIdle
    /\ ConfiguratorMounted
    /\ BoxMounted
    /\ CurrencyIdle
    /\ rateDenied = EmptyObject

\* nothing of the security utilities has been called; the rate-limit
\* arguments have their default values
SecurityIdle ==
    /\ hasWindow = TRUE
    /\ rateLimitStore = EmptyObject
    /\ maxRequests = 100
    /\ windowMs = 60000
    /\ rateResult = NoResult
    /\ rateWindow = EmptyObject
    /\ loginResult = NoResult
    /\ loginHistory = EmptyObject

Init ==
    /\ Constructed
    /\ now = 0
    /\ localStorage \in InitialStorages
    /\ SecurityIdle
    /\ OtherIdle

\* useEffect: load the cart items from local storage
LoadCart ==
    /\ ~mounted
    /\ LET cart == GetParsedOr("cart", <<>>)
           enhancementData == GetParsedOr("enhancementData", EmptyObject)
       IN  cartItems' = IF "orderItems" \in DOMAIN enhancementData
                          THEN cart \o enhancementData.orderItems
                          ELSE cart
    /\ mounted' = TRUE
    /\ UNCHANGED <<otherVars, securityVars, orderData, isProcessing, orderComplete, error, activeStep,
                   pending, localStorage, now>>

\* the wizard and the order summary are rendered
FormShown == mounted /\ ~orderComplete /\ cartItems # <<>>

-----------------------------------------------------------------------------
(* Checkout: event handlers *)

\* onChange of a billing field (rendered in step 1): handleInputChange
handleInputChange(field, value) ==
    /\ FormShown
    /\ activeStep = 1
    /\ orderData' = [orderData EXCEPT !.billingAddress[field] = value]
    /\ error' = NoError
    /\ UNCHANGED <<otherVars, securityVars, cartItems, isProcessing, orderComplete, activeStep,
                   mounted, pending, localStorage, now>>

\* "Continue to Payment": if (validateForm()) setActiveStep(2)
ContinueToPayment ==
    /\ FormShown
    /\ activeStep = 1
    /\ LET v == validateForm(orderData)
       IN  /\ error' = v.error
           /\ activeStep' = IF v.ok THEN 2 ELSE activeStep
    /\ UNCHANGED <<otherVars, securityVars, cartItems, orderData, isProcessing, orderComplete,
                   mounted, pending, localStorage, now>>

\* "Edit Shipping": setActiveStep(1)
EditShipping ==
    /\ FormShown
    /\ activeStep = 2
    /\ activeStep' = 1
    /\ UNCHANGED <<otherVars, securityVars, cartItems, orderData, isProcessing, orderComplete, error,
                   mounted, pending, localStorage, now>>

\* click on a payment method (rendered in step 2)
SelectPaymentMethod(method) ==
    /\ FormShown
    /\ activeStep = 2
    /\ orderData' = [orderData EXCEPT !.paymentMethod = method]
    /\ UNCHANGED <<otherVars, securityVars, cartItems, isProcessing, orderComplete, error, activeStep,
                   mounted, pending, localStorage, now>>

\* "Review Order": setActiveStep(3)
ReviewOrder ==
    /\ FormShown
    /\ activeStep = 2
    /\ activeStep' = 3
    /\ UNCHANGED <<otherVars, securityVars, cartItems, orderData, isProcessing, orderComplete, error,
                   mounted, pending, localStorage, now>>

\* "Edit Payment" jumping back to the shipping step
EditPayment_ToShipping ==
    /\ FormShown
    /\ activeStep = 3
    /\ activeStep' = 1
    /\ UNCHANGED <<otherVars, securityVars, cartItems, orderData, isProcessing, orderComplete, error,
                   mounted, pending, localStorage, now>>

\* "Edit Payment": setActiveStep(2)
EditPayment ==
    /\ FormShown
    /\ activeStep = 3
    /\ activeStep' = 2
    /\ UNCHANGED <<otherVars, securityVars, cartItems, orderData, isProcessing, orderComplete, error,
                   mounted, pending, localStorage, now>>

\* onChange of the special-instructions textarea (rendered in step 3)
ChangeSpecialInstructions(value) ==
    /\ FormShown
    /\ activeStep = 3
    /\ orderData' = [orderData EXCEPT !.specialInstructions = value]
    /\ UNCHANGED <<otherVars, securityVars, cartItems, isProcessing, orderComplete, error, activeStep,
                   mounted, pending, localStorage, now>>

\* onCheckedChange of the terms checkbox (order summary, every step)
ToggleTerms ==
    /\ FormShown
    /\ orderData' = [orderData EXCEPT !.agreedToTerms = ~orderData.agreedToTerms]
    /\ UNCHANGED <<otherVars, securityVars, cartItems, isProcessing, orderComplete, error, activeStep,
                   mounted, pending, localStorage, now>>

\* "Place Order" (order summary, every step; disabled while processing,
\* with an empty cart or without the terms): handleSubmitOrder up to its
\* await
handleSubmitOrder ==
    /\ FormShown
    /\ ~isProcessing
    /\ orderData.agreedToTerms
    /\ LET v == validateForm(orderData)
       IN  IF ~v.ok
             THEN /\ error' = v.error
                  /\ UNCHANGED <<isProcessing, pending>>
             ELSE /\ isProcessing' = TRUE
                  /\ error' = NoError
                  /\ pending' = [active |-> TRUE, items |-> cartItems,
                                 orderData |-> orderData]
    /\ UNCHANGED <<otherVars, securityVars, cartItems, orderData, orderComplete, activeStep, mounted,
                   localStorage, now>>

ProcessingDelay == 3000

\* the form as it is when the timer fires
SubmittedOrderData_Current == orderData

\* the orderData the order is built from: the one the handler closed over
SubmittedOrderData == pending.orderData

OrdersIn(store) ==
    IF "orders" \in DOMAIN store THEN JSONparse(store["orders"]) ELSE <<>>

\* completion that stores the new order alone
CompleteOrder_Overwrites ==
    /\ pending.active
    /\ now' = now + ProcessingDelay
    /\ LET order == OrderRecord(pending.items, SubmittedOrderData, now')
           s1 == SetItem(localStorage, "orders", JSONstringify(<<order>>))
       IN  localStorage' = RemoveItem(RemoveItem(s1, "cart"), "enhancementData")
    /\ orderComplete' = TRUE
    /\ isProcessing' = FALSE
    /\ pending' = NoPending
    /\ UNCHANGED <<otherVars, securityVars, cartItems, orderData, error, activeStep, mounted>>

\* handleSubmitOrder after its await: the 3 s timer has fired
CompleteOrder ==
    /\ pending.active
    /\ now' = now + ProcessingDelay
    /\ LET order == OrderRecord(pending.items, SubmittedOrderData, now')
           existingOrders == StoredOrders
           s1 == SetItem(localStorage, "orders",
                         JSONstringify(existingOrders \o <<order>>))
       IN  localStorage' = RemoveItem(RemoveItem(s1, "cart"), "enhancementData")
    /\ orderComplete' = TRUE
    /\ isProcessing' = FALSE
    /\ pending' = NoPending
    /\ UNCHANGED <<otherVars, securityVars, cartItems, orderData, error, activeStep, mounted>>

Next ==
    \/ LoadCart
    \/ \E field \in RequiredFields : \E value \in WizardValues(field) :
           handleInputChange(field, value)
    \/ ContinueToPayment
    \/ EditShipping
    \/ \E method \in PaymentMethods : SelectPaymentMethod(method)
    \/ ReviewOrder
    \/ EditPayment
    \/ \E value \in InstructionValues : ChangeSpecialInstructions(value)
    \/ ToggleTerms
    \/ handleSubmitOrder
    \/ CompleteOrder

Spec == Init /\ [][Next]_vars

\* the shipping step alone, with malformed values typed as well
NextForm ==
    \/ LoadCart
    \/ \E field \in BillingFields : \E value \in FieldValues(field) :
           handleInputChange(field, value)
    \/ ToggleTerms
    \/ ContinueToPayment
    \/ EditShipping

SpecForm == Init /\ [][NextForm]_vars

-----------------------------------------------------------------------------
(* Checkout: properties *)

AdjacentSteps == {<<1, 2>>, <<2, 3>>, <<3, 2>>, <<2, 1>>}

\* C1: the active step is always 1, 2 or 3, it is 1 when the page is
\* constructed, and every change of it goes to an adjacent step.
C1_StepsAdjacent ==
    /\ activeStep = 1
    /\ [](activeStep \in {1, 2, 3})
    /\ [][activeStep' # activeStep => <<activeStep, activeStep'>> \in AdjacentSteps]_vars

C1_Witness == activeStep = 3 /\ orderData.paymentMethod = "bank"

\* C2: processing of an order starts only in the review step.
C2_SubmitOnlyFromReview ==
    [][(~isProcessing /\ isProcessing') => activeStep = 3]_vars

\* the messages the claim allows for a form, by the order of the checks
RequiredMessageOf(field) ==
    CASE field = "firstName" -> "Billing First Name is required."
      [] field = "lastName"  -> "Billing Last Name is required."
      [] field = "address"   -> "Billing Address is required."
      [] field = "city"      -> "Billing City is required."
      [] field = "state"     -> "Billing State is required."
      [] field = "pincode"   -> "Billing Pincode is required."
      [] field = "phone"     -> "Billing Phone is required."
      [] field = "email"     -> "Billing Email is required."

FirstFailingMessages(od) ==
    LET b == od.billingAddress
        empty == {f \in RequiredFields : b[f] = <<>>}
    IN  IF empty # {} THEN {RequiredMessageOf(f) : f \in empty}
        ELSE IF ~emailRegexTest(b.email)
          THEN {"Please enter a valid email address for billing."}
        ELSE IF ~phoneRegexTest(StripNonDigits(b.phone))
          THEN {"Please enter a valid phone number for billing (e.g., +919876543210 or 9876543210)."}
        ELSE IF ~pincodeRegexTest(b.pincode)
          THEN {"Please enter a valid 6-digit pincode for billing."}
        ELSE IF ~od.agreedToTerms
          THEN {"You must agree to the terms and conditions to place an order."}
        ELSE {}

\* C3: "Continue to Payment" reaches step 2 only with a form that
\* validateForm accepts; otherwise the step stays 1 and error is the
\* message of the first failing check, in the order required fields,
\* email, phone, pincode, terms.
C3_ContinueValidates ==
    [][ContinueToPayment =>
          /\ activeStep' = 2 => validateForm(orderData).ok
          /\ FirstFailingMessages(orderData) # {} =>
                 /\ activeStep' = 1
                 /\ error' \in FirstFailingMessages(orderData)
          /\ FirstFailingMessages(orderData) = {} => activeStep' = 2]_vars

C3_Witness ==
    /\ activeStep = 1
    /\ error = "Please enter a valid email address for billing."
    /\ ~pincodeRegexTest(orderData.billingAddress.pincode)
    /\ ~orderData.agreedToTerms

\* what the claim asks of the orderData of a stored order
PassesValidation(od) ==
    /\ \A f \in RequiredFields : od.billingAddress[f] # <<>>
    /\ emailRegexTest(od.billingAddress.email)
    /\ phoneRegexTest(StripNonDigits(od.billingAddress.phone))
    /\ pincodeRegexTest(od.billingAddress.pincode)
    /\ od.agreedToTerms

\* C4: the orderData of every order in the stored "orders" list passes
\* the validation, whatever is edited during the processing delay.
C4_StoredOrdersValid ==
    \A i \in 1..Len(StoredOrders) : PassesValidation(StoredOrders[i].orderData)

\* an order was stored although the form was emptied and the terms
\* unchecked during the delay
C4_Witness ==
    /\ orderComplete
    /\ StoredOrders # <<>>
    /\ StoredOrders[Len(StoredOrders)].id = now
    /\ ~orderData.agreedToTerms
    /\ orderData.billingAddress.email = <<>>

RECURSIVE SumFrom(_, _)
SumFrom(items, i) ==
    IF i > Len(items) THEN 0
    ELSE ItemPrice(items[i]) * items[i].quantity + SumFrom(items, i + 1)

\* C6: subtotal = sum of price x quantity, tax = 18% of it, delivery is
\* free strictly above 5000 and 200 otherwise, final = the three added
\* (tax and final total in hundredths).
C6_Totals ==
    LET subtotal == SumFrom(cartItems, 1)
        delivery == IF subtotal > 5000 THEN 0 ELSE 200
    IN  /\ total = subtotal
        /\ gst = 18 * subtotal
        /\ deliveryCharges = delivery
        /\ finalTotal = 100 * subtotal + 18 * subtotal + 100 * delivery

C6_Witness == mounted /\ total = 5000 /\ deliveryCharges = 200

-----------------------------------------------------------------------------
(* Rate limiting *)

MaxRateTime == 5        \* the clock stops here, in milliseconds
MaxMaxRequests == 2     \* largest maxRequests argument tried
MaxWindowMs == 2        \* largest windowMs argument tried

Identifiers == {"A", "B"}

\* the key an identifier is stored under, shared by all identifiers
StoreKey_Shared(identifier) == "A"

\* rateLimitStore.get(identifier) / .set(identifier, ...)
StoreKey(identifier) == identifier

\* the limit counts as reached one request late
LimitReached_Late(entry) == entry.count > maxRequests

\* entry.count >= maxRequests
LimitReached(entry) == entry.count >= maxRequests

\* !entry || now - entry.firstRequest > windowMs
NewWindowNeeded(key) ==
    \/ key \notin DOMAIN rateLimitStore
    \/ now - rateLimitStore[key].firstRequest > windowMs

\* a denied call counts as the identifier's last request
checkRateLimitCall_TouchOnDeny(identifier) ==
    LET key == StoreKey(identifier)
        entry == rateLimitStore[key]
    IN  IF NewWindowNeeded(key)
          THEN [store |-> SetItem(rateLimitStore, key,
                                  [count |-> 1, firstRequest |-> now,
                                   lastRequest |-> now]),
                result |-> [allowed |-> TRUE, remaining |-> maxRequests - 1,
                            resetTime |-> now + windowMs]]
        ELSE IF LimitReached(entry)
          THEN [store |-> SetItem(rateLimitStore, key,
                                  [entry EXCEPT !.lastRequest = now]),
                result |-> [allowed |-> FALSE, remaining |-> 0,
                            resetTime |-> entry.firstRequest + windowMs]]
        ELSE [store |-> SetItem(rateLimitStore, key,
                                [entry EXCEPT !.count = entry.count + 1,
                                              !.lastRequest = now]),
              result |-> [allowed |-> TRUE,
                          remaining |-> maxRequests - (entry.count + 1),
                          resetTime |-> entry.firstRequest + windowMs]]

\* checkRateLimit: the value returned and the store it leaves
checkRateLimitCall(identifier) ==
    LET key == StoreKey(identifier)
        entry == rateLimitStore[key]
    IN  IF NewWindowNeeded(key)
          THEN [store |-> SetItem(rateLimitStore, key,
                                  [count |-> 1, firstRequest |-> now,
                                   lastRequest |-> now]),
                result |-> [allowed |-> TRUE, remaining |-> maxRequests - 1,
                            resetTime |-> now + windowMs]]
        ELSE IF LimitReached(entry)
          THEN [store |-> rateLimitStore,
                result |-> [allowed |-> FALSE, remaining |-> 0,
                            resetTime |-> entry.firstRequest + windowMs]]
        ELSE [store |-> SetItem(rateLimitStore, key,
                                [entry EXCEPT !.count = entry.count + 1,
                                              !.lastRequest = now]),
              result |-> [allowed |-> TRUE,
                          remaining |-> maxRequests - (entry.count + 1),
                          resetTime |-> entry.firstRequest + windowMs]]

\* the window of an identifier as the calls made with it define it: it
\* opens at the first call and at the first call made more than windowMs
\* after it opened
WindowOpen(identifier) ==
    /\ identifier \in DOMAIN rateWindow
    /\ now - rateWindow[identifier].opened <= windowMs

WindowAfter(identifier, allowed) ==
    LET n == IF allowed THEN 1 ELSE 0
    IN  IF WindowOpen(identifier)
          THEN [rateWindow[identifier] EXCEPT !.allowed = @ + n]
          ELSE [opened |-> now, allowed |-> n]

checkRateLimit(identifier) ==
    /\ LET call == checkRateLimitCall(identifier)
       IN  /\ rateLimitStore' = call.store
           /\ rateResult' = call.result
           /\ rateWindow' = SetItem(rateWindow, identifier,
                                    WindowAfter(identifier, call.result.allowed))
           /\ rateDenied' = IF call.result.allowed
                             THEN RemoveItem(rateDenied, identifier)
                             ELSE SetItem(rateDenied, identifier,
                                          call.result.resetTime)
    /\ UNCHANGED <<componentVars, checkoutVars, localStorage, now, hasWindow,
                   maxRequests, windowMs, loginResult, loginHistory>>

\* a millisecond passes
TickRate ==
    /\ now < MaxRateTime
    /\ now' = now + 1
    /\ UNCHANGED <<otherVars, checkoutVars, localStorage, securityVars>>

InitRate ==
    /\ Constructed
    /\ now = 0
    /\ localStorage = EmptyObject
    /\ hasWindow = TRUE
    /\ rateLimitStore = EmptyObject
    /\ maxRequests \in 0..MaxMaxRequests
    /\ windowMs \in 1..MaxWindowMs
    /\ rateResult = NoResult
    /\ rateWindow = EmptyObject
    /\ loginResult = NoResult
    /\ loginHistory = EmptyObject
    /\ OtherIdle

NextRate ==
    \/ TickRate
    \/ \E identifier \in Identifiers : checkRateLimit(identifier)

SpecRate == InitRate /\ [][NextRate]_vars

\* C7: with maxRequests >= 1 and windowMs > 0 held constant, at most
\* maxRequests calls of an identifier are allowed in one window, and a
\* call in a window that already has maxRequests allowed calls returns
\* allowed = false and remaining = 0.
C7_AtMostMaxPerWindow ==
    /\ [](maxRequests >= 1 =>
            \A id \in DOMAIN rateWindow : rateWindow[id].allowed <= maxRequests)
    /\ [][\A id \in Identifiers :
            (/\ checkRateLimit(id)
             /\ maxRequests >= 1
             /\ WindowOpen(id)
             /\ rateWindow[id].allowed >= maxRequests)
            => (rateResult'.allowed = FALSE /\ rateResult'.remaining = 0)]_vars

\* a request was denied in a window holding maxRequests = 2 allowed calls
C7_Witness ==
    /\ maxRequests = 2
    /\ "A" \in DOMAIN rateWindow
    /\ rateWindow["A"].allowed = 2
    /\ rateWindow["A"].opened > 0
    /\ rateResult = [allowed |-> FALSE, remaining |-> 0,
                     resetTime |-> rateWindow["A"].opened + windowMs]

\* the result the calls made with one identifier alone determine
ResultFromOwnHistory(id) ==
    IF ~WindowOpen(id)
      THEN [allowed |-> TRUE, remaining |-> maxRequests - 1,
            resetTime |-> now + windowMs]
    ELSE IF rateWindow[id].allowed >= maxRequests
      THEN [allowed |-> FALSE, remaining |-> 0,
            resetTime |-> rateWindow[id].opened + windowMs]
    ELSE [allowed |-> TRUE,
          remaining |-> maxRequests - (rateWindow[id].allowed + 1),
          resetTime |-> rateWindow[id].opened + windowMs]

EntryOf(store, id) ==
    IF id \in DOMAIN store THEN <<store[id]>> ELSE <<>>

\* C8: a call made with one identifier returns what the earlier calls
\* made with that identifier determine, and leaves the entry (count,
\* window start, last request) of every other identifier as it was.
C8_PerIdentifier ==
    [][\A id \in Identifiers :
          checkRateLimit(id) =>
             /\ rateResult' = ResultFromOwnHistory(id)
             /\ \A other \in Identifiers \ {id} :
                    EntryOf(rateLimitStore', other) = EntryOf(rateLimitStore, other)]_vars

\* A is denied in its window while B, called in between, has its own
\* window and count
C8_Witness ==
    /\ DOMAIN rateLimitStore = {"A", "B"}
    /\ rateLimitStore["A"].count = 2
    /\ rateLimitStore["B"].count = 1
    /\ rateLimitStore["B"].firstRequest > rateLimitStore["A"].firstRequest
    /\ rateLimitStore["B"].firstRequest < rateLimitStore["A"].lastRequest
    /\ rateResult.allowed = FALSE

-----------------------------------------------------------------------------
(* Login attempts *)

MaxWaits == 3           \* waits of about one lockout duration in a behaviour
MaxFailures == 6        \* failed logins recorded between two clears

\* ENTERPRISE_CONFIG.security
maxLoginAttempts == 5
lockoutDuration == 15 * 60 * 1000

LoginIdentifiers == {"alice"}

\* `login_attempts_${identifier}`
LoginKey(identifier) ==
    CASE identifier = "alice" -> "login_attempts_alice"

\* JSON.parse(stored)
StoredAttempts(identifier) == JSONparse(localStorage[LoginKey(identifier)])

\* data.lockedUntil is set (and not 0)
HasLock(data) == "lockedUntil" \in DOMAIN data /\ data.lockedUntil # 0

\* data.lockedUntil && Date.now() < data.lockedUntil
LockedOut(data) == HasLock(data) /\ now < data.lockedUntil

\* the lockout counts as running at the instant it ends
LockoutExpired_Late(data) == HasLock(data) /\ now > data.lockedUntil

\* data.lockedUntil && Date.now() >= data.lockedUntil
LockoutExpired(data) == HasLock(data) /\ now >= data.lockedUntil

\* Date.now() - data.lastAttempt > lockoutDuration
AttemptsStale(data) == now - data.lastAttempt > lockoutDuration

Max(a, b) == IF a >= b THEN a ELSE b

\* checkLoginAttempts: the value returned and the storage it leaves
checkLoginAttemptsCall(identifier) ==
    LET storageKey == LoginKey(identifier)
        data == StoredAttempts(identifier)
        Fresh == [allowed |-> TRUE, attemptsRemaining |-> maxLoginAttempts]
    IN  IF ~hasWindow
          THEN [storage |-> localStorage, result |-> Fresh]
        ELSE IF ~HasItem(storageKey)
          THEN [storage |-> localStorage, result |-> Fresh]
        ELSE IF LockedOut(data)
          THEN [storage |-> localStorage,
                result |-> [allowed |-> FALSE, attemptsRemaining |-> 0,
                            lockoutUntil |-> data.lockedUntil]]
        ELSE IF LockoutExpired(data)
          THEN [storage |-> RemoveItem(localStorage, storageKey),
                result |-> Fresh]
        ELSE IF AttemptsStale(data)
          THEN [storage |-> RemoveItem(localStorage, storageKey),
                result |-> Fresh]
        ELSE [storage |-> localStorage,
              result |-> [allowed |-> data.attempts < maxLoginAttempts,
                          attemptsRemaining |->
                              Max(0, maxLoginAttempts - data.attempts)]]

checkLoginAttempts(identifier) ==
    /\ LET call == checkLoginAttemptsCall(identifier)
       IN  /\ localStorage' = call.storage
           /\ loginResult' = [identifier |-> identifier, value |-> call.result]
    /\ UNCHANGED <<otherVars, checkoutVars, now, hasWindow, rateLimitStore, maxRequests,
                   windowMs, rateResult, rateWindow, loginHistory>>

\* the lockout starts one failure late
LockThresholdReached_Late(attempts) == attempts > maxLoginAttempts

\* data.attempts >= maxLoginAttempts
LockThresholdReached(attempts) == attempts >= maxLoginAttempts

\* the record recordFailedLogin writes
RecordedAttempts(identifier) ==
    LET data == IF HasItem(LoginKey(identifier))
                  THEN StoredAttempts(identifier)
                  ELSE [attempts |-> 0, lastAttempt |-> now]
        counted == [data EXCEPT !.attempts = data.attempts + 1,
                                !.lastAttempt = now]
    IN  IF LockThresholdReached(counted.attempts)
          THEN [attempts |-> counted.attempts,
                lastAttempt |-> counted.lastAttempt,
                lockedUntil |-> now + lockoutDuration]
          ELSE counted

NoFailures == [count |-> 0, last |-> 0, spaced |-> TRUE]

\* the failed logins recorded for an identifier since the last clear:
\* their number, the time of the latest, and whether each came within
\* lockoutDuration of the one before
HistoryOf(identifier) ==
    IF identifier \in DOMAIN loginHistory THEN loginHistory[identifier]
    ELSE NoFailures

HistoryAfterFailure(identifier) ==
    LET h == HistoryOf(identifier)
    IN  [count |-> h.count + 1,
         last |-> now,
         spaced |-> h.spaced /\ (h.count = 0 \/ now - h.last <= lockoutDuration)]

recordFailedLogin(identifier) ==
    /\ HistoryOf(identifier).count < MaxFailures
    /\ IF ~hasWindow
         THEN UNCHANGED <<localStorage, loginHistory>>
         ELSE /\ localStorage' =
                     SetItem(localStorage, LoginKey(identifier),
                             JSONstringify(RecordedAttempts(identifier)))
              /\ loginHistory' = SetItem(loginHistory, identifier,
                                         HistoryAfterFailure(identifier))
    /\ UNCHANGED <<otherVars, checkoutVars, now, hasWindow, rateLimitStore, maxRequests,
                   windowMs, rateResult, rateWindow, loginResult>>

clearLoginAttempts(identifier) ==
    /\ IF ~hasWindow
         THEN UNCHANGED <<localStorage, loginHistory>>
         ELSE /\ localStorage' = RemoveItem(localStorage, LoginKey(identifier))
              /\ loginHistory' = RemoveItem(loginHistory, identifier)
    /\ UNCHANGED <<otherVars, checkoutVars, now, hasWindow, rateLimitStore, maxRequests,
                   windowMs, rateResult, rateWindow, loginResult>>

\* times passing between calls: just under, exactly and just over the
\* lockout duration
LoginWaits == {lockoutDuration - 1, lockoutDuration, lockoutDuration + 1}

WaitLogin(d) ==
    /\ now + d <= MaxWaits * (lockoutDuration + 1)
    /\ now' = now + d
    /\ UNCHANGED <<otherVars, checkoutVars, localStorage, securityVars>>

InitLogin ==
    /\ Constructed
    /\ now = 0
    /\ localStorage = EmptyObject
    /\ hasWindow \in BOOLEAN
    /\ rateLimitStore = EmptyObject
    /\ maxRequests = 100
    /\ windowMs = 60000
    /\ rateResult = NoResult
    /\ rateWindow = EmptyObject
    /\ loginResult = NoResult
    /\ loginHistory = EmptyObject
    /\ OtherIdle

NextLogin ==
    \/ \E d \in LoginWaits : WaitLogin(d)
    \/ \E identifier \in LoginIdentifiers : checkLoginAttempts(identifier)
    \/ \E identifier \in LoginIdentifiers : recordFailedLogin(identifier)
    \/ \E identifier \in LoginIdentifiers : clearLoginAttempts(identifier)

SpecLogin == InitLogin /\ [][NextLogin]_vars

\* C9 as stated: after 5 failures recorded without a clear, each within
\* 15 minutes of the one before, a check before the 5th failure + 15
\* minutes returns allowed = false, attemptsRemaining = 0 and that
\* lockoutUntil; with fewer than 5 recorded failures a check returns
\* allowed = true and attemptsRemaining = 5 - failures.
C9_AsStated ==
    [][\A id \in LoginIdentifiers :
          (checkLoginAttempts(id) /\ hasWindow /\ HistoryOf(id).spaced) =>
             /\ (HistoryOf(id).count = 5 /\ now < HistoryOf(id).last + lockoutDuration)
                   => loginResult'.value =
                         [allowed |-> FALSE, attemptsRemaining |-> 0,
                          lockoutUntil |-> HistoryOf(id).last + lockoutDuration]
             /\ HistoryOf(id).count < 5
                   => loginResult'.value =
                         [allowed |-> TRUE,
                          attemptsRemaining |-> 5 - HistoryOf(id).count]]_vars

\* C9 amended: the same, the second half for checks made no later than
\* 15 minutes after the latest failure; a later check finds the failures
\* expired and returns attemptsRemaining = 5.
C9_LockedAfterFive ==
    [][\A id \in LoginIdentifiers :
          (checkLoginAttempts(id) /\ hasWindow /\ HistoryOf(id).spaced) =>
             /\ (HistoryOf(id).count = 5 /\ now < HistoryOf(id).last + lockoutDuration)
                   => loginResult'.value =
                         [allowed |-> FALSE, attemptsRemaining |-> 0,
                          lockoutUntil |-> HistoryOf(id).last + lockoutDuration]
             /\ (/\ HistoryOf(id).count < 5
                 /\ \/ HistoryOf(id).count = 0
                    \/ now - HistoryOf(id).last <= lockoutDuration)
                   => loginResult'.value =
                         [allowed |-> TRUE,
                          attemptsRemaining |-> 5 - HistoryOf(id).count]
             /\ (/\ HistoryOf(id).count \in 1..4
                 /\ now - HistoryOf(id).last > lockoutDuration)
                   => loginResult'.value =
                         [allowed |-> TRUE, attemptsRemaining |-> 5]]_vars

\* a check during the lockout, some time after the 5th failure
C9_Witness ==
    /\ HistoryOf("alice").count = 5
    /\ HistoryOf("alice").spaced
    /\ HistoryOf("alice").last > 0
    /\ now = HistoryOf("alice").last + lockoutDuration - 1
    /\ loginResult = [identifier |-> "alice",
                      value |-> [allowed |-> FALSE, attemptsRemaining |-> 0,
                                 lockoutUntil |-> now + 1]]

\* C10: the first check at or after lockedUntil returns allowed = true
\* and attemptsRemaining = 5 and deletes the record; clearLoginAttempts
\* deletes the record at any time; a failure recorded with no record
\* stored starts at a count of 1.
C10_LockoutEnds ==
    [][\A id \in LoginIdentifiers :
          /\ (/\ checkLoginAttempts(id)
              /\ hasWindow
              /\ HasItem(LoginKey(id))
              /\ "lockedUntil" \in DOMAIN StoredAttempts(id)
              /\ now >= StoredAttempts(id).lockedUntil)
                => /\ loginResult'.value =
                         [allowed |-> TRUE, attemptsRemaining |-> 5]
                   /\ LoginKey(id) \notin DOMAIN localStorage'
          /\ (clearLoginAttempts(id) /\ hasWindow)
                => LoginKey(id) \notin DOMAIN localStorage'
          /\ (recordFailedLogin(id) /\ hasWindow /\ ~HasItem(LoginKey(id)))
                => JSONparse(localStorage'[LoginKey(id)]).attempts = 1]_vars

\* the record of a lockout was deleted by a check made exactly at
\* lockedUntil
C10_Witness ==
    /\ HistoryOf("alice").count = 5
    /\ now = HistoryOf("alice").last + lockoutDuration
    /\ ~HasItem(LoginKey("alice"))
    /\ loginResult = [identifier |-> "alice",
                      value |-> [allowed |-> TRUE, attemptsRemaining |-> 5]]

-----------------------------------------------------------------------------
(* CSRF token and secureStorage (lib/security.ts)                          *)
(*                                                                         *)
(* The strings handed to secureStorage are sequences of UTF-16 code units, *)
(* the binary strings of unescape/escape are sequences of bytes,           *)
(* and a base64 text is the sequence of the 6-bit values of its            *)
(* characters, with Pad for "=".                                           *)

Tokens == {"", "t1", "t2"}

\* sessionStorage.getItem("csrf_token") behind the window test
getCSRFToken ==
    IF hasWindow /\ "csrf_token" \in DOMAIN sessionStorage
    THEN NotNull(sessionStorage["csrf_token"])
    ELSE Null

TokenMatches_AnyStored(storedToken, token) == storedToken # Null

\* storedToken !== null && storedToken === token
TokenMatches(storedToken, token) ==
    storedToken # Null /\ storedToken.value = token

setCSRFToken(token) ==
    /\ IF hasWindow
         THEN /\ sessionStorage' = SetItem(sessionStorage, "csrf_token", token)
              /\ csrfStored' = NotNull(token)
         ELSE UNCHANGED <<sessionStorage, csrfStored>>
    /\ UNCHANGED <<rateDenied, currencyVars, boxVars, configuratorVars, passwordVars,
                   checkoutVars, localStorage, now, securityVars, csrfResult,
                   secureResult, secureWritten>>

validateCSRFToken(token) ==
    /\ csrfResult' = [token |-> token, value |-> TokenMatches(getCSRFToken, token)]
    /\ UNCHANGED <<rateDenied, currencyVars, boxVars, configuratorVars, passwordVars,
                   checkoutVars, localStorage, now, securityVars, sessionStorage,
                   csrfStored, secureResult, secureWritten>>

\* ---- secureStorage

Pad == 64

\* a lone surrogate makes encodeURIComponent throw URIError
IsSurrogate(u) == u >= 55296 /\ u <= 57343

\* encodeURIComponent then unescape: the UTF-8 bytes of the text
RECURSIVE utf8Encode(_)
utf8Encode(text) ==
    IF text = <<>> THEN <<>>
    ELSE LET u == Head(text)
             bytes == IF u < 128 THEN <<u>>
                      ELSE IF u < 2048 THEN <<192 + (u \div 64), 128 + (u % 64)>>
                      ELSE <<224 + (u \div 4096), 128 + ((u \div 64) % 64), 128 + (u % 64)>>
         IN  bytes \o utf8Encode(Tail(text))

RECURSIVE btoa(_)
btoa(b) ==
    IF Len(b) = 0 THEN <<>>
    ELSE IF Len(b) = 1
         THEN <<b[1] \div 4, (b[1] % 4) * 16, Pad, Pad>>
    ELSE IF Len(b) = 2
         THEN <<b[1] \div 4, (b[1] % 4) * 16 + (b[2] \div 16), (b[2] % 16) * 4, Pad>>
    ELSE <<b[1] \div 4, (b[1] % 4) * 16 + (b[2] \div 16),
           (b[2] % 16) * 4 + (b[3] \div 64), b[3] % 64>>
         \o btoa(SubSeq(b, 4, Len(b)))

RECURSIVE atob(_)
atob(e) ==
    IF Len(e) = 0 THEN <<>>
    ELSE LET b1 == e[1] * 4 + (e[2] \div 16)
             b2 == (e[2] % 16) * 16 + (e[3] \div 4)
             b3 == (e[3] % 4) * 64 + e[4]
             group == IF e[3] = Pad THEN <<b1>>
                      ELSE IF e[4] = Pad THEN <<b1, b2>>
                      ELSE <<b1, b2, b3>>
         IN  group \o atob(SubSeq(e, 5, Len(e)))

IsContinuation(b, i) == i <= Len(b) /\ b[i] >= 128 /\ b[i] <= 191

\* escape then decodeURIComponent: the text of the UTF-8 bytes; malformed
\* bytes make decodeURIComponent throw, which getItem catches
RECURSIVE utf8Decode(_)
utf8Decode(b) ==
    IF b = <<>> THEN NotNull(<<>>)
    ELSE LET n == IF b[1] < 128 THEN 1
                  ELSE IF b[1] >= 194 /\ b[1] <= 223 THEN 2
                  ELSE IF b[1] >= 224 /\ b[1] <= 239 THEN 3
                  ELSE 0
             wellFormed == /\ n > 0
                           /\ \A i \in 2..n : IsContinuation(b, i)
             u == IF n = 1 THEN b[1]
                  ELSE IF n = 2 THEN (b[1] - 192) * 64 + (b[2] - 128)
                  ELSE (b[1] - 224) * 4096 + (b[2] - 128) * 64 + (b[3] - 128)
             rest == IF wellFormed THEN utf8Decode(SubSeq(b, n + 1, Len(b))) ELSE Null
         IN  IF rest = Null THEN Null ELSE NotNull(<<u>> \o rest.value)

StorageKeys == {"k1", "k2"}

\* `secure_${key}`
SecureKey(key) == CASE key = "k1" -> "secure_k1" [] key = "k2" -> "secure_k2"

\* "", "a", "e" with an acute accent, "a" and the euro sign, a lone surrogate
StorageValues == { <<>>, <<97>>, <<233>>, <<97, 8364>>, <<55357>> }

\* the test `!encoded`: null or the empty string
Falsy(encoded) == encoded = Null \/ encoded.value = <<>>

secureSetItem(key, value) ==
    /\ IF hasWindow /\ \A i \in 1..Len(value) : ~IsSurrogate(value[i])
         THEN /\ localStorage' = SetItem(localStorage, SecureKey(key),
                                         btoa(utf8Encode(value)))
              /\ secureWritten' = SetItem(secureWritten, key, value)
         ELSE UNCHANGED <<localStorage, secureWritten>>
    /\ UNCHANGED <<rateDenied, currencyVars, boxVars, configuratorVars, passwordVars,
                   checkoutVars, now, securityVars, sessionStorage, csrfResult,
                   csrfStored, secureResult>>

secureGetItemCall(key) ==
    LET encoded == IF SecureKey(key) \in DOMAIN localStorage
                   THEN NotNull(localStorage[SecureKey(key)])
                   ELSE Null
    IN  IF ~hasWindow THEN Null
        ELSE IF Falsy(encoded) THEN Null
        ELSE utf8Decode(atob(encoded.value))

secureGetItem(key) ==
    /\ secureResult' = [key |-> key, value |-> secureGetItemCall(key)]
    /\ UNCHANGED <<rateDenied, currencyVars, boxVars, configuratorVars, passwordVars,
                   checkoutVars, localStorage, now, securityVars, sessionStorage,
                   csrfResult, csrfStored, secureWritten>>

secureRemoveItem(key) ==
    /\ IF hasWindow
         THEN /\ localStorage' = RemoveItem(localStorage, SecureKey(key))
              /\ secureWritten' = RemoveItem(secureWritten, key)
         ELSE UNCHANGED <<localStorage, secureWritten>>
    /\ UNCHANGED <<rateDenied, currencyVars, boxVars, configuratorVars, passwordVars,
                   checkoutVars, now, securityVars, sessionStorage, csrfResult,
                   csrfStored, secureResult>>

\* the keys of localStorage that start with "secure_"
SecurePrefixed == {k \in DOMAIN localStorage : k \in {"secure_k1", "secure_k2"}}

secureClear ==
    /\ IF hasWindow
         THEN /\ localStorage' = [k \in DOMAIN localStorage \ SecurePrefixed |->
                                    localStorage[k]]
              /\ secureWritten' = EmptyObject
         ELSE UNCHANGED <<localStorage, secureWritten>>
    /\ UNCHANGED <<rateDenied, currencyVars, boxVars, configuratorVars, passwordVars,
                   checkoutVars, now, securityVars, sessionStorage, csrfResult,
                   csrfStored, secureResult>>

\* a page with or without a window; local storage holds a key of another
\* component
InitStorage ==
    /\ Constructed
    /\ now = 0
    /\ localStorage = SetItem(EmptyObject, "preferred_currency", "USD")
    /\ hasWindow \in BOOLEAN
    /\ rateLimitStore = EmptyObject
    /\ maxRequests = 100
    /\ windowMs = 60000
    /\ rateResult = NoResult
    /\ rateWindow = EmptyObject
    /\ loginResult = NoResult
    /\ loginHistory = EmptyObject
    /\ OtherIdle

NextStorage ==
    \/ \E token \in Tokens : setCSRFToken(token)
    \/ \E token \in Tokens : validateCSRFToken(token)
    \/ \E key \in StorageKeys, value \in StorageValues : secureSetItem(key, value)
    \/ \E key \in StorageKeys : secureGetItem(key)
    \/ \E key \in StorageKeys : secureRemoveItem(key)
    \/ secureClear

SpecStorage == InitStorage /\ [][NextStorage]_vars

\* C11: validateCSRFToken(t) returns true exactly when a window exists, a
\* token has been stored with setCSRFToken and the most recently stored token
\* is t; before any setCSRFToken, or without a window, it returns false.
C11_ValidatesLastStored ==
    [][\A token \in Tokens :
         validateCSRFToken(token) =>
            (csrfResult'.value <=>
                (hasWindow /\ csrfStored # Null /\ csrfStored.value = token))]_vars

\* the empty token was stored and validated
C11_Witness ==
    /\ csrfStored = NotNull("")
    /\ csrfResult # NoResult
    /\ csrfResult.token = ""
    /\ csrfResult.value = TRUE

\* C17: getItem(key) returns the value of the last setItem(key, value) not
\* removed since, and null for a key never set or removed.
C17_RoundTrip ==
    [][\A key \in StorageKeys :
         secureGetItem(key) =>
            secureResult'.value =
               (IF key \in DOMAIN secureWritten
                THEN NotNull(secureWritten[key]) ELSE Null)]_vars

-----------------------------------------------------------------------------
(* Password validation (lib/security.ts)                                   *)
(*                                                                         *)
(* A password is a sequence of one-character strings; its length is the    *)
(* number of UTF-16 code units, as password.length counts them.            *)

MaxCoreLen == 4

passwordPolicy ==
    [ minLength |-> 8,
      requireUppercase |-> TRUE,
      requireLowercase |-> TRUE,
      requireNumber |-> TRUE,
      requireSpecialChar |-> TRUE ]

\* [A-Z]
UppercaseLetters ==
    {"A", "B", "C", "D", "E", "F", "G", "H", "I", "J", "K", "L", "M",
     "N", "O", "P", "Q", "R", "S", "T", "U", "V", "W", "X", "Y", "Z"}

\* [a-z]
LowercaseLetters ==
    {"a", "b", "c", "d", "e", "f", "g", "h", "i", "j", "k", "l", "m",
     "n", "o", "p", "q", "r", "s", "t", "u", "v", "w", "x", "y", "z"}

\* [!@#$%^&*(),.?":{}|<>]
SpecialChars ==
    {"!", "@", "#", "$", "%", "^", "&", "*", "(", ")", ",", ".", "?", "\"",
     ":", "{", "}", "|", "<", ">"}

\* regex.test(password) for a one-character class
ClassTest(class, pw) == \E i \in 1..Len(pw) : pw[i] \in class

TooShort_Inclusive(pw) == Len(pw) <= passwordPolicy.minLength

\* password.length < passwordPolicy.minLength
TooShort(pw) == Len(pw) < passwordPolicy.minLength

LengthMessage == "Password must be at least 8 characters"
UppercaseMessage == "Password must contain at least one uppercase letter"
LowercaseMessage == "Password must contain at least one lowercase letter"
NumberMessage == "Password must contain at least one number"
SpecialMessage == "Password must contain at least one special character"

\* one check of a character class: the error pushed and the score added
ClassCheck(required, class, message, pw) ==
    IF required /\ ~ClassTest(class, pw)
    THEN [errors |-> <<message>>, score |-> 0]
    ELSE IF ClassTest(class, pw)
         THEN [errors |-> <<>>, score |-> 1]
         ELSE [errors |-> <<>>, score |-> 0]

LengthCheck(pw) ==
    IF TooShort(pw)
    THEN [errors |-> <<LengthMessage>>, score |-> 0]
    ELSE [errors |-> <<>>,
          score |-> 1 + (IF Len(pw) >= 12 THEN 1 ELSE 0)
                      + (IF Len(pw) >= 16 THEN 1 ELSE 0)]

\* the last threshold one lower: six points are already very strong
Strength_SixIsVeryStrong(score) ==
    IF score <= 2 THEN "weak"
    ELSE IF score <= 4 THEN "medium"
    ELSE IF score <= 5 THEN "strong"
    ELSE "very-strong"

Strength(score) ==
    IF score <= 2 THEN "weak"
    ELSE IF score <= 4 THEN "medium"
    ELSE IF score <= 6 THEN "strong"
    ELSE "very-strong"

validatePasswordCall(pw) ==
    LET length == LengthCheck(pw)
        upper == ClassCheck(passwordPolicy.requireUppercase, UppercaseLetters,
                            UppercaseMessage, pw)
        lower == ClassCheck(passwordPolicy.requireLowercase, LowercaseLetters,
                            LowercaseMessage, pw)
        number == ClassCheck(passwordPolicy.requireNumber, Digits,
                             NumberMessage, pw)
        special == ClassCheck(passwordPolicy.requireSpecialChar, SpecialChars,
                              SpecialMessage, pw)
        errors == length.errors \o upper.errors \o lower.errors
                    \o number.errors \o special.errors
        score == length.score + upper.score + lower.score + number.score
                    + special.score
    IN  [ isValid |-> Len(errors) = 0,
          errors |-> errors,
          strength |-> Strength(score),
          score |-> score ]

validatePassword ==
    /\ passwordResult = NoResult
    /\ passwordResult' = validatePasswordCall(password)
    /\ UNCHANGED <<checkoutVars, localStorage, now, securityVars, storageVars,
                   configuratorVars, boxVars, currencyVars,
                   rateDenied, password>>

\* one character of each class and one of none
CoreChars == {"A", "z", "0", "?", "_"}

RECURSIVE SeqsUpTo(_, _)
SeqsUpTo(S, n) ==
    IF n = 0 THEN {<<>>}
    ELSE LET shorter == SeqsUpTo(S, n - 1)
         IN  shorter \cup {Append(t, c) : t \in shorter, c \in S}

RECURSIVE Repeat(_, _)
Repeat(c, n) == IF n = 0 THEN <<>> ELSE <<c>> \o Repeat(c, n - 1)

\* lengths of padding that put the password's length on either side of the
\* thresholds 8, 12 and 16
PaddingLengths == {0, 3, 4, 7, 8, 11, 12, 15, 16}

Passwords ==
    {core \o Repeat("_", n) : core \in SeqsUpTo(CoreChars, MaxCoreLen),
                              n \in PaddingLengths}

InitPassword ==
    /\ Constructed
    /\ now = 0
    /\ localStorage = EmptyObject
    /\ SecurityIdle
    /\ StorageIdle
    /\ ConfiguratorMounted
    /\ BoxMounted
    /\ CurrencyIdle
    /\ rateDenied = EmptyObject
    /\ password \in Passwords
    /\ passwordResult = NoResult

NextPassword == validatePassword

SpecPassword == InitPassword /\ [][NextPassword]_vars

Violations(pw) ==
    { rule \in {"length", "uppercase", "lowercase", "number", "special"} :
        \/ rule = "length" /\ Len(pw) < 8
        \/ rule = "uppercase" /\ ~\E i \in 1..Len(pw) : pw[i] \in UppercaseLetters
        \/ rule = "lowercase" /\ ~\E i \in 1..Len(pw) : pw[i] \in LowercaseLetters
        \/ rule = "number" /\ ~\E i \in 1..Len(pw) : pw[i] \in Digits
        \/ rule = "special" /\ ~\E i \in 1..Len(pw) : pw[i] \in SpecialChars }

MessageOf(rule) ==
    CASE rule = "length" -> LengthMessage
      [] rule = "uppercase" -> UppercaseMessage
      [] rule = "lowercase" -> LowercaseMessage
      [] rule = "number" -> NumberMessage
      [] rule = "special" -> SpecialMessage

\* C12: isValid holds exactly when the password has at least 8 characters
\* and an uppercase letter, a lowercase letter, a digit and a listed special
\* character; errors holds exactly one message per violated rule; isValid is
\* equivalent to errors being empty.
C12_PasswordRules ==
    passwordResult # NoResult =>
        /\ passwordResult.isValid <=> Violations(password) = {}
        /\ Len(passwordResult.errors) = Cardinality(Violations(password))
        /\ {passwordResult.errors[i] : i \in 1..Len(passwordResult.errors)}
              = {MessageOf(rule) : rule \in Violations(password)}
        /\ passwordResult.isValid <=> passwordResult.errors = <<>>

\* a password of exactly 8 characters with one character of each class
C12_Witness ==
    /\ passwordResult # NoResult
    /\ Len(password) = 8
    /\ passwordResult.isValid

-----------------------------------------------------------------------------
(* Configurator page: handlers.  Every handler ends with the render its    *)
(* state change causes, which re-evaluates the three useMemo hooks.        *)

configuratorRest == <<checkoutVars, localStorage, now, securityVars, storageVars,
                      passwordVars, boxVars, currencyVars, rateDenied>>

\* the render after the state change
Rendered ==
    /\ calculatedVolume' = Memo(calculatedVolume, calculatedVolumeDeps(config'),
                                VolumeOf(config'.dimensions))
    /\ estimatedPrice' = Memo(estimatedPrice,
                              estimatedPriceDeps(config', calculatedVolume'.value),
                              PriceOf(calculatedVolume'.value, config'.material))
    /\ totalPrice' = Memo(totalPrice, totalPriceDeps(estimatedPrice'.value, config'),
                          estimatedPrice'.value * config'.quantity)

\* { ...prev, ...updates }
Merged(prev, updates) ==
    [f \in DOMAIN prev |-> IF f \in DOMAIN updates THEN updates[f] ELSE prev[f]]

updateConfig(updates) ==
    /\ timers < MaxTimers
    /\ config' = Merged(config, updates)
    /\ configChanged' = TRUE
    /\ isLoading' = TRUE
    /\ timers' = timers + 1
    /\ Rendered
    /\ UNCHANGED <<configuratorRest, viewMode, isAnimating, activeTab>>

\* a callback that clears the loading flag only
LoadingTimeout_KeepsChanged ==
    /\ timers > 0
    /\ timers' = timers - 1
    /\ isLoading' = FALSE
    /\ configChanged' = configChanged
    /\ config' = config
    /\ Rendered
    /\ UNCHANGED <<configuratorRest, viewMode, isAnimating, activeTab>>

\* the callback of a setTimeout(..., 600) of updateConfig
LoadingTimeout ==
    /\ timers > 0
    /\ timers' = timers - 1
    /\ isLoading' = FALSE
    /\ configChanged' = FALSE
    /\ config' = config
    /\ Rendered
    /\ UNCHANGED <<configuratorRest, viewMode, isAnimating, activeTab>>

Tabs == {"dimensions", "style", "material", "finish"}

setActiveTab(tab) ==
    /\ activeTab' = tab
    /\ config' = config
    /\ Rendered
    /\ UNCHANGED <<configuratorRest, viewMode, isAnimating, configChanged,
                   isLoading, timers>>

SliderDimensions == {"width", "height", "depth"}

\* values of a slider, of 5..100
SliderValues(dim) ==
    CASE dim = "width" -> {5, 25}
      [] dim = "height" -> {5, 20}
      [] dim = "depth" -> {7, 15}

SlideDimension(dim, val) ==
    /\ activeTab = "dimensions"
    /\ val # config.dimensions[dim]
    /\ updateConfig([dimensions |-> [config.dimensions EXCEPT ![dim] = val]])

\* the minus button without its floor of 10
DecreaseQuantity_NoFloor ==
    /\ activeTab = "dimensions"
    /\ updateConfig([quantity |-> Max(0, config.quantity - 10)])

DecreaseQuantity ==
    /\ activeTab = "dimensions"
    /\ updateConfig([quantity |-> Max(10, config.quantity - 10)])

IncreaseQuantity ==
    /\ activeTab = "dimensions"
    /\ config.quantity + 10 <= MaxQuantity
    /\ updateConfig([quantity |-> config.quantity + 10])

Styles == {"shipping", "mailer", "gift"}

SelectStyle(id) ==
    /\ activeTab = "style"
    /\ updateConfig([style |-> id])

Materials == {"corrugated", "kraft", "cardboard"}

SelectMaterial(id) ==
    /\ activeTab = "material"
    /\ updateConfig([material |-> id])

\* two of the twelve presets
ColorPresets == {"#8B4513", "#FFFFFF"}

SelectColor(hex) ==
    /\ activeTab = "finish"
    /\ updateConfig([color |-> hex])

Finishes == {"matte", "glossy", "satin", "transparent"}

SelectFinish(value) ==
    /\ activeTab = "finish"
    /\ value # config.finish
    /\ updateConfig([finish |-> value])

ToggleAnimating ==
    /\ isAnimating' = ~isAnimating
    /\ config' = config
    /\ Rendered
    /\ UNCHANGED <<configuratorRest, viewMode, activeTab, configChanged, isLoading,
                   timers>>

handleResetConfiguration ==
    /\ config' = InitialConfig
    /\ Rendered
    /\ UNCHANGED <<configuratorRest, viewMode, isAnimating, activeTab,
                   configChanged, isLoading, timers>>

InitConfigurator ==
    /\ Constructed
    /\ now = 0
    /\ localStorage = EmptyObject
    /\ SecurityIdle
    /\ OtherIdle

NextConfigurator ==
    \/ \E tab \in Tabs : setActiveTab(tab)
    \/ \E dim \in SliderDimensions : \E val \in SliderValues(dim) :
          SlideDimension(dim, val)
    \/ DecreaseQuantity
    \/ IncreaseQuantity
    \/ \E id \in Styles : SelectStyle(id)
    \/ \E id \in Materials : SelectMaterial(id)
    \/ \E hex \in ColorPresets : SelectColor(hex)
    \/ \E value \in Finishes : SelectFinish(value)
    \/ ToggleAnimating
    \/ handleResetConfiguration
    \/ LoadingTimeout

SpecConfigurator == InitConfigurator /\ [][NextConfigurator]_vars

\* C13: after any sequence of configuration changes the derived values are
\* those of the current configuration: the volume is width * height * depth
\* / 1000 rounded to 2 decimals, the unit price is round((25 + 0.5 * volume)
\* * m) with m = 1.2 for corrugated and 1 otherwise, and the total price is
\* the unit price times the quantity.
C13_DerivedValuesCurrent ==
    LET k == config.dimensions.width * config.dimensions.height
               * config.dimensions.depth
        v == calculatedVolume.value
        m == IF config.material = "corrugated" THEN 12 ELSE 10
        p == estimatedPrice.value
    IN  /\ 10 * v - k <= 5
        /\ k - 10 * v <= 5
        /\ 2000 * p - 1000 <= (5000 + v) * m
        /\ (5000 + v) * m < 2000 * p + 1000
        /\ totalPrice.value = p * config.quantity

\* the smallest box in kraft at the smallest quantity, its volume 0.175
\* shown as 0.17
C13_Witness ==
    /\ config.dimensions.width = 5
    /\ config.dimensions.height = 5
    /\ config.dimensions.depth = 7
    /\ config.material = "kraft"
    /\ config.quantity = 10
    /\ calculatedVolume.value = 17
    /\ estimatedPrice.value = 25
    /\ totalPrice.value = 250

-----------------------------------------------------------------------------
(* Enhanced3DBox: renders *)

boxRest == <<checkoutVars, localStorage, now, securityVars, storageVars,
             passwordVars, configuratorVars, currencyVars, rateDenied>>

\* the render of Enhanced3DBox with the new props, and its folding effect,
\* which runs when foldingState, animationProgress or style has changed
BoxRendered ==
    /\ overlay # Throws
    /\ boxGeometry' = Memo(boxGeometry, boxGeometryDeps(style', dimensions'),
                           GeometryOf(style', dimensions'))
    /\ overlay' = OverlayOf(style', foldingState', animationProgress')
    /\ foldingAnimation' =
          IF /\ overlay' # Throws
             /\ foldingState' = "folding"
             /\ <<foldingState', animationProgress', style'>>
                    # <<foldingState, animationProgress, style>>
          THEN NotNull(animateFolding(
                         GroupChildren(boxGeometry'.value, foldingState'),
                         style', animationProgress'))
          ELSE foldingAnimation
    /\ UNCHANGED boxRest

\* the nine styles of the table and one that is not in it
StyleNames == DOMAIN BOX_STYLES \cup {"custom"}

DimensionValues ==
    { DefaultDimensions,
      [length |-> 200, width |-> 100, height |-> 100, thickness |-> 4] }

SetStyle(s) ==
    /\ style' = s
    /\ UNCHANGED <<dimensions, foldingState, animationProgress>>
    /\ BoxRendered

SetDimensions(d) ==
    /\ dimensions' = d
    /\ UNCHANGED <<style, foldingState, animationProgress>>
    /\ BoxRendered

SetFoldingState(state) ==
    /\ foldingState' = state
    /\ UNCHANGED <<style, dimensions, animationProgress>>
    /\ BoxRendered

SetAnimationProgress(progress) ==
    /\ animationProgress' = progress
    /\ UNCHANGED <<style, dimensions, foldingState>>
    /\ BoxRendered

InitBox ==
    /\ Constructed
    /\ now = 0
    /\ localStorage = EmptyObject
    /\ SecurityIdle
    /\ OtherIdle

NextBox ==
    \/ \E s \in StyleNames : SetStyle(s)
    \/ \E d \in DimensionValues : SetDimensions(d)
    \/ \E state \in {"flat", "folding", "assembled"} : SetFoldingState(state)
    \/ \E progress \in 0..ProgressSteps : SetAnimationProgress(progress)

SpecBox == InitBox /\ [][NextBox]_vars

PanelNames == {"bottom", "top", "left-side", "right-side", "front", "back"}

FlapNames ==
    {"bottom-front-flap", "bottom-back-flap", "bottom-left-flap",
     "bottom-right-flap", "top-front-flap", "top-back-flap", "top-left-flap",
     "top-right-flap"}

\* C14: for the styles drawer, folding, gableTop, pillow, tuckEnd and
\* hingedLid, and for a style that is not in the table, the parts generated
\* are those createRSCGeometry generates for the same dimensions, in the
\* same order: 14 parts, 6 panels and 8 flaps.
C14_StubsAreRSC ==
    style \in {"drawer", "folding", "gableTop", "pillow", "tuckEnd", "hingedLid",
               "custom"} =>
        /\ boxGeometry.value = createRSCGeometry(dimensions.length, dimensions.width,
                                                 dimensions.height, dimensions.thickness)
        /\ Len(boxGeometry.value) = 14
        /\ {boxGeometry.value[i].name : i \in 1..6} = PanelNames
        /\ {boxGeometry.value[i].name : i \in 7..14} = FlapNames

\* a pillow box of other than the default dimensions
C14_Witness ==
    /\ style = "pillow"
    /\ dimensions # DefaultDimensions
    /\ Len(boxGeometry.value) = 14

\* C15: while foldingState is 'folding', the instruction of a style of the
\* table with a sequence of length n is the element at index
\* floor(animationProgress * n): a step of the sequence for a progress in
\* [0, 1), later steps for larger progress, and 'Complete' at progress 1.
C15_InstructionFollowsProgress ==
    foldingState = "folding" /\ style \in DOMAIN BOX_STYLES =>
        LET sequence == BOX_STYLES[style].foldingSequence
            n == Len(sequence)
            shown == overlay.value.currentInstruction
        IN  /\ overlay # Null
            /\ animationProgress < ProgressSteps =>
                 \E i \in 0..(n - 1) :
                    /\ i * ProgressSteps <= animationProgress * n
                    /\ animationProgress * n < (i + 1) * ProgressSteps
                    /\ shown = sequence[i + 1]
                    /\ overlay.value.step = i + 1
            /\ animationProgress = ProgressSteps => shown = "Complete"
            /\ \A earlier \in 0..animationProgress :
                 StepOf(earlier, n) <= StepOf(animationProgress, n)

\* the last step of a three-step sequence, shown just before completion
C15_Witness ==
    /\ foldingState = "folding"
    /\ style = "autoBottom"
    /\ animationProgress = ProgressSteps - 1
    /\ overlay = NotNull([step |-> 3, currentInstruction |-> "top", text |-> "TOP"])

-----------------------------------------------------------------------------
(* CurrencyProvider and CurrencySelector                                   *)

currencyRest == <<checkoutVars, now, securityVars, storageVars, passwordVars,
                  configuratorVars, boxVars, rateDenied>>

\* localStorage.getItem("preferred_currency")
SavedCurrency ==
    IF "preferred_currency" \in DOMAIN localStorage
    THEN NotNull(localStorage["preferred_currency"])
    ELSE Null

RestoredCurrency_Ignored(saved) == currency

\* if (saved && DEFAULT_RATES[saved]) setCurrency(saved)
RestoredCurrency(saved) ==
    IF saved # Null /\ saved.value # "" /\ saved.value \in DOMAIN DEFAULT_RATES
    THEN saved.value
    ELSE currency

\* useEffect of the provider: load the preference on mount
MountProvider ==
    /\ ~providerMounted
    /\ providerMounted' = TRUE
    /\ currency' = RestoredCurrency(SavedCurrency)
    /\ currencyIsLoading' = FALSE
    /\ UNCHANGED <<currencyRest, localStorage, rates, open, convertResult,
                   lastSetCurrency>>

\* handleSetCurrency, the setCurrency of the context
handleSetCurrencyCall(c) ==
    /\ currency' = c
    /\ localStorage' = SetItem(localStorage, "preferred_currency", c)
    /\ lastSetCurrency' = NotNull(c)

handleSetCurrency(c) ==
    /\ providerMounted
    /\ handleSetCurrencyCall(c)
    /\ UNCHANGED <<currencyRest, rates, currencyIsLoading, providerMounted, open,
                   convertResult>>

onOpenChange(o) ==
    /\ providerMounted
    /\ open' = o
    /\ UNCHANGED <<currencyRest, localStorage, currency, rates, currencyIsLoading,
                   providerMounted, convertResult, lastSetCurrency>>

toLowerCase(text) ==
    CASE text \in {"INR", "inr"} -> "inr"
      [] text \in {"USD", "usd"} -> "usd"
      [] text \in {"AED", "aed"} -> "aed"

\* Object.values(rates).map(rate => ({ value: rate.code, ... }))
currencyOptions == {rates[code].code : code \in DOMAIN rates}

\* the values the command list hands to onSelect: lower-cased or as given
SelectedValues == {"inr", "usd", "aed", "USD"}

onSelect(currentValue) ==
    /\ providerMounted
    /\ open
    /\ LET found == {opt \in currencyOptions :
                        toLowerCase(opt) = toLowerCase(currentValue)}
       IN  IF found # {}
           THEN handleSetCurrencyCall(CHOOSE opt \in found : TRUE)
           ELSE UNCHANGED <<currency, localStorage, lastSetCurrency>>
    /\ open' = FALSE
    /\ UNCHANGED <<currencyRest, rates, currencyIsLoading, providerMounted,
                   convertResult>>

Prices == {0, 1, 100, 2500, 5000}

\* priceInInr * rates[currency].rate, in thousandths
convertPriceCall(priceInInr) == priceInInr * rates[currency].rate

convertPrice(priceInInr) ==
    /\ providerMounted
    /\ convertResult' = [price |-> priceInInr, value |-> convertPriceCall(priceInInr)]
    /\ UNCHANGED <<currencyRest, localStorage, currency, rates, currencyIsLoading,
                   providerMounted, open, lastSetCurrency>>

\* the page is loaded again: the components are constructed anew, local
\* storage is kept
ReloadPage ==
    /\ providerMounted
    /\ currency' = "INR"
    /\ rates' = DEFAULT_RATES
    /\ currencyIsLoading' = TRUE
    /\ providerMounted' = FALSE
    /\ open' = FALSE
    /\ convertResult' = NoResult
    /\ UNCHANGED <<currencyRest, localStorage, lastSetCurrency>>

\* no preference saved, a valid one, or one of a currency that is not in the
\* rate table
InitCurrency ==
    /\ Constructed
    /\ now = 0
    /\ localStorage \in {SetItem(EmptyObject, "preferred_currency", saved) :
                            saved \in {"AED", "EUR"}} \cup {EmptyObject}
    /\ SecurityIdle
    /\ OtherIdle

NextCurrency ==
    \/ MountProvider
    \/ \E c \in DOMAIN DEFAULT_RATES : handleSetCurrency(c)
    \/ \E o \in BOOLEAN : onOpenChange(o)
    \/ \E currentValue \in SelectedValues : onSelect(currentValue)
    \/ \E priceInInr \in Prices : convertPrice(priceInInr)
    \/ ReloadPage

SpecCurrency == InitCurrency /\ [][NextCurrency]_vars

-----------------------------------------------------------------------------
(* Rate limiting and login attempts: the end of a window, stale failures   *)

\* C18: with maxRequests >= 1, a denied call reports resetTime = window
\* start + windowMs, and the next call of the identifier made at or after
\* that resetTime is allowed and opens a new window.
C18_AllowedFromResetTime ==
    [][\A id \in Identifiers :
          (checkRateLimit(id) /\ maxRequests >= 1) =>
             /\ ~rateResult'.allowed
                   => rateResult'.resetTime = rateWindow'[id].opened + windowMs
             /\ (id \in DOMAIN rateDenied /\ now >= rateDenied[id])
                   => /\ rateResult'.allowed
                      /\ rateLimitStore'[StoreKey(id)].firstRequest = now]_vars

\* C19: a recordFailedLogin made more than lockoutDuration after the
\* latest recorded failure does not lock the identifier out.
C19_StaleFailuresForgotten ==
    [][\A id \in LoginIdentifiers :
          (/\ recordFailedLogin(id)
           /\ hasWindow
           /\ HistoryOf(id).count >= 1
           /\ now - HistoryOf(id).last > lockoutDuration)
          => ~HasLock(JSONparse(localStorage'[LoginKey(id)]))]_vars

-----------------------------------------------------------------------------
(* Centralized configuration (ENTERPRISE_CONFIG) and the checkout page     *)

\* ENTERPRISE_CONFIG.shipping.freeShippingThreshold
freeShippingThreshold == [INR |-> 25000, USD |-> 300, AED |-> 1100]

getFreeShippingThreshold(code) == freeShippingThreshold[code]

\* C20: the subtotal above which the checkout page charges no delivery is
\* ENTERPRISE_CONFIG.shipping.freeShippingThreshold.INR.
C20_ThresholdFromConfig ==
    mounted => (deliveryCharges = 0 <=> total > getFreeShippingThreshold("INR"))

-----------------------------------------------------------------------------
(* Rate limiting: denied calls and the remaining field                     *)

\* C22: a call that returns allowed = false leaves the whole store as it
\* was, and with maxRequests >= 1 no stored count exceeds maxRequests.
C22_DeniedLeavesStore ==
    /\ [][\A id \in Identifiers :
            (checkRateLimit(id) /\ ~rateResult'.allowed)
               => rateLimitStore' = rateLimitStore]_vars
    /\ [](maxRequests >= 1 =>
            \A key \in DOMAIN rateLimitStore :
                rateLimitStore[key].count <= maxRequests)

\* a call was denied some time after the last allowed one of a full window
C22_Witness ==
    /\ maxRequests = 2
    /\ rateResult # NoResult
    /\ ~rateResult.allowed
    /\ "A" \in DOMAIN rateDenied
    /\ rateLimitStore["A"].count = 2
    /\ rateLimitStore["A"].lastRequest < now

\* C23: the remaining field of every result is non-negative, for every
\* maxRequests >= 0, and an allowed call returns remaining = maxRequests
\* minus the calls allowed in the current window.
C23_RemainingNonNegative ==
    /\ [](rateResult # NoResult => rateResult.remaining >= 0)
    /\ [][\A id \in Identifiers :
            (checkRateLimit(id) /\ rateResult'.allowed)
               => rateResult'.remaining = maxRequests - rateWindow'[id].allowed]_vars

-----------------------------------------------------------------------------
(* Password strength scoring                                               *)

\* C24: the score is between 0 and 7; a valid password has score >= 5 and
\* strength strong or very-strong; very-strong is returned only for a valid
\* password of at least 16 characters.
C24_ScoreAndStrength ==
    passwordResult # NoResult =>
        /\ passwordResult.score \in 0..7
        /\ passwordResult.isValid =>
              /\ passwordResult.score >= 5
              /\ passwordResult.strength \in {"strong", "very-strong"}
        /\ passwordResult.strength = "very-strong" =>
              /\ passwordResult.isValid
              /\ Len(password) >= 16

\* a valid password of twelve characters is strong, not very strong
C24_Witness ==
    /\ passwordResult # NoResult
    /\ passwordResult.isValid
    /\ Len(password) = 12
    /\ passwordResult.score = 6
    /\ passwordResult.strength = "strong"

-----------------------------------------------------------------------------
(* Configurator: quantity, reset and the loading timers                    *)

\* C25: the quantity is always at least 10 and a multiple of 10; the plus
\* button adds 10, the minus button subtracts 10 but leaves 10 at 10, and
\* reset restores the whole configuration to its initial value (25 x 20 x
\* 15, thickness 3, shipping, corrugated, #8B4513, matte, 100) while leaving
\* viewMode, isAnimating and activeTab unchanged.
C25_QuantityAndReset ==
    /\ [](config.quantity >= 10 /\ config.quantity % 10 = 0)
    /\ [][IncreaseQuantity => config'.quantity = config.quantity + 10]_vars
    /\ [][DecreaseQuantity =>
            config'.quantity = IF config.quantity = 10 THEN 10
                               ELSE config.quantity - 10]_vars
    /\ [][handleResetConfiguration =>
            /\ config' = [ dimensions |-> [width |-> 25, height |-> 20,
                                           depth |-> 15, thickness |-> 3],
                           style |-> "shipping", material |-> "corrugated",
                           color |-> "#8B4513", finish |-> "matte",
                           quantity |-> 100 ]
            /\ UNCHANGED <<viewMode, isAnimating, activeTab>>]_vars

\* the minus button has brought the quantity down to its floor
C25_Witness ==
    /\ config.quantity = 10
    /\ isLoading
    /\ activeTab = "dimensions"

\* a call of updateConfig from one of the controls
UpdateConfigCalled ==
    \/ \E dim \in SliderDimensions : \E val \in SliderValues(dim) :
          SlideDimension(dim, val)
    \/ DecreaseQuantity
    \/ IncreaseQuantity
    \/ \E id \in Styles : SelectStyle(id)
    \/ \E id \in Materials : SelectMaterial(id)
    \/ \E hex \in ColorPresets : SelectColor(hex)
    \/ \E value \in Finishes : SelectFinish(value)

\* C26: each updateConfig sets isLoading and configChanged and schedules a
\* timer that is never cancelled (a pending timer goes away only by firing);
\* once every scheduled timer has fired, isLoading and configChanged are
\* both false.  The state with isLoading false and a timer still pending is
\* the witness.
C26_LoadingTimers ==
    /\ [][UpdateConfigCalled =>
            isLoading' /\ configChanged' /\ timers' = timers + 1]_vars
    /\ [][timers' < timers => LoadingTimeout]_vars
    /\ [](timers = 0 => ~isLoading /\ ~configChanged)

\* the earlier timer has fired while the later update's timer is pending
C26_Witness ==
    /\ ~isLoading
    /\ ~configChanged
    /\ timers > 0

-----------------------------------------------------------------------------
(* Enhanced3DBox: the folding animation                                    *)

\* C21: during folding, animateFolding selects each step i of the style's
\* sequence with 0 < progress * n - i <= 1 and rotates the rendered parts
\* whose name contains the step's name: for every style of the table and
\* every progress in (0, 1] exactly one step is selected and at least one
\* part is rotated; at progress 0 no step is selected.
C21_FoldingRotatesParts ==
    foldingState = "folding" /\ style \in DOMAIN BOX_STYLES =>
        LET sequence == BOX_STYLES[style].foldingSequence
            n == Len(sequence)
            parts == boxGeometry.value
        IN  /\ foldingAnimation # Null
            /\ foldingAnimation.value.steps =
                  {i \in 0..(n - 1) :
                     /\ 0 < animationProgress * n - i * ProgressSteps
                     /\ animationProgress * n - i * ProgressSteps <= ProgressSteps}
            /\ foldingAnimation.value.rotated =
                  {c \in 1..Len(parts) :
                     \E i \in foldingAnimation.value.steps :
                         Includes(parts[c].name, sequence[i + 1])}
            /\ animationProgress > 0 =>
                  /\ Cardinality(foldingAnimation.value.steps) = 1
                  /\ foldingAnimation.value.rotated # {}
            /\ animationProgress = 0 => foldingAnimation.value.steps = {}

====
